---- MODULE Spec2Model ----
(***************************************************************************)
(* State-machine model of the identifier mappers of animanga-mapped:       *)
(* AnimeMapper / MangaMapper (mappers/anime_mapper.py,                     *)
(* mappers/manga_mapper.py).  One run ingests the per-service files into   *)
(* all_data and id_graph (load_all_data), finds the clusters of the graph  *)
(* breadth-first and turns every cluster into a cross-reference entry      *)
(* (build_cross_references), and builds the sorted list of final items     *)
(* from the cross-reference entries (merge_to_final_format).               *)
(*                                                                         *)
(* A node of the graph is the pair <<service, id>> of two strings.  Python *)
(* dicts are modelled with their insertion order where the code iterates   *)
(* them; the iteration order of a Python set of string tuples depends on   *)
(* the per-process string hash seed and is a nondeterministic choice.      *)
(***************************************************************************)
EXTENDS Integers, Sequences, FiniteSets, TLC

\* ---------------------------------------------------------------- bounds
\* Number of items over all service files of one input.
MaxRecords == 2
\* Number of entries of one item's external_ids mapping.
MaxExt == 2
\* Number of runs of the mapper on the same files.
MaxRuns == 2

\* ------------------------------------------------------- program constants
AnimeSERVICES ==
    << "anidb", "anilist", "myanimelist", "animenewsnetwork",
       "animeplanet", "kitsu", "livechart", "simkl",
       "themoviedb", "tvdb", "imdb" >>

MangaSERVICES == << "anilist", "myanimelist", "kitsu" >>

SERVICES(m) == IF m = "anime" THEN AnimeSERVICES ELSE MangaSERVICES

\* The fallback order of the primary key after the base service.
AnimeFallback == << "anilist", "mal", "kitsu", "simkl" >>
MangaFallback == << "mal", "myanimelist", "kitsu" >>

\* str.lower() on the service names that occur in the model.
Lower(s) ==
    CASE s = "MAL" -> "mal"
      [] s = "AniList" -> "anilist"
      [] OTHER -> s

AnimeNormalizeMapping ==
    ("themoviedb" :> "themoviedb") @@ ("thetvdb" :> "tvdb") @@
    ("anime-planet" :> "animeplanet") @@ ("myanimelist" :> "mal")

\* AnimeMapper.normalize_service_name / MangaMapper.normalize_service_name
normalize_service_name(m, service) ==
    IF m = "anime"
    THEN IF Lower(service) \in DOMAIN AnimeNormalizeMapping
         THEN AnimeNormalizeMapping[Lower(service)]
         ELSE Lower(service)
    ELSE IF Lower(service) = "myanimelist" THEN "mal" ELSE Lower(service)

\* ------------------------------------------------------------ input space
\* The values external_ids may give for a service name ("" is an empty id).
IdsOf(k) ==
    CASE k = "anilist" -> {"1"}
      [] k = "mal" -> {"10", "11"}
      [] k = "kitsu" -> {"100", ""}
      [] k = "simkl" -> {"3"}
      [] OTHER -> {}

\* The values of the "id" field of the items of a service file.
LocalIds(s) ==
    CASE s = "anidb" -> {"5"}
      [] s = "anilist" -> {"1"}
      [] s = "myanimelist" -> {"10"}
      [] s = "kitsu" -> {"100", ""}
      [] s = "tvdb" -> {"7"}
      [] OTHER -> {}

\* Keys of external_ids, in the order the scrapers write them.
ExtKeyOrder(m) ==
    IF m = "anime"
    THEN << "anidb", "anilist", "mal", "kitsu", "simkl" >>
    ELSE << "anilist", "mal", "kitsu" >>

Range(s) == {s[i] : i \in DOMAIN s}

ExtKeys(m) == Range(ExtKeyOrder(m))

AllIdValues == UNION {IdsOf(k) : k \in ExtKeys("anime")}

\* external_ids: a mapping of at most MaxExt service names to id strings.
ExtMaps(m) ==
    {e \in UNION {[D -> AllIdValues] :
                    D \in {D \in SUBSET ExtKeys(m) : Cardinality(D) <= MaxExt}} :
        \A k \in DOMAIN e : e[k] \in IdsOf(k)}

\* The services whose file holds items in the model.
FileServices(m) == {s \in Range(SERVICES(m)) : LocalIds(s) # {}}

\* The values of the "type" field of an item.
ItemTypes == {"TV"}

\* The "metadata" of an item: the season fields of an AniDB item.
Metadatas(s) ==
    IF s = "anidb"
    THEN {[default_tvdb_season |-> "1", tmdb_season |-> "a"]}
    ELSE {[k \in {} |-> ""]}

\* One entry of a service file, with the file it is in.  shape tells what
\* the JSON value is: "ok" an object as BaseScraper.format_item writes it,
\* "not_object" a value that is no object, "bad_external_ids" an object
\* whose external_ids is no mapping, "bad_metadata" an object whose metadata
\* is no mapping; "unparsable_file" stands for a file load_json raises on.
\* The items of the scrapers are all well-formed.
Items(m) ==
    UNION {{[service |-> s, id |-> i, type |-> t, external_ids |-> e,
             metadata |-> md, shape |-> "ok"] :
                i \in LocalIds(s), t \in ItemTypes, e \in ExtMaps(m),
                md \in Metadatas(s)} : s \in FileServices(m)}

IndexOf(seq, x) == CHOOSE i \in DOMAIN seq : seq[i] = x

\* The items in the order load_all_data reads them: file after file in the
\* order of SERVICES, the items of one file in the order of the file.
InFileOrder(m, recs) ==
    \A i \in 1..(Len(recs) - 1) :
        IndexOf(SERVICES(m), recs[i].service)
            <= IndexOf(SERVICES(m), recs[i + 1].service)

\* An entry that stands for a file that does not parse is the first of its
\* file (the entries after it are what the file would have held).
WellPlaced(recs) ==
    \A i \in DOMAIN recs :
        recs[i].shape = "unparsable_file" =>
            (i = 1 \/ recs[i - 1].service # recs[i].service)

Inputs(m) ==
    {recs \in UNION {[1..n -> Items(m)] : n \in 0..MaxRecords} :
        InFileOrder(m, recs)}

\* ------------------------------------------- input space of the merge step
\* Service files whose items differ in what merge_to_final_format reads:
\* ids that are no integers, types, the season fields of the AniDB metadata.
MergeLocalIds(s) ==
    CASE s = "anidb" -> {"5", "3"}
      [] s = "anilist" -> {"1", "2"}
      [] s = "myanimelist" -> {"10", "abc"}
      [] s = "kitsu" -> {"100"}
      [] OTHER -> {}

MergeTypes(s) ==
    CASE s = "anilist" -> {"", "TV"}
      [] s = "myanimelist" -> {"", "Movie"}
      [] s = "kitsu" -> {"OVA"}
      [] OTHER -> {"TV"}

MergeExtMaps(m, s) ==
    {e \in CASE s = "anidb" -> {[k \in {} |-> ""], ("mal" :> "abc")}
             [] s = "anilist" -> {[k \in {} |-> ""], ("anidb" :> "5"),
                                  ("mal" :> "10"), ("mal" :> "abc")}
             [] s = "myanimelist" -> {[k \in {} |-> ""], ("anidb" :> "5"),
                                      ("anilist" :> "1")}
             [] OTHER -> {[k \in {} |-> ""], ("mal" :> "10")} :
        DOMAIN e \subseteq ExtKeys(m)}

\* metadata and shape of an item: the mappings AniDBScraper writes, and for
\* an AniDB item a metadata that is no mapping.
MergeMetadatas(s) ==
    IF s = "anidb"
    THEN {[metadata |-> md, shape |-> "ok"] :
             md \in {[default_tvdb_season |-> "1", tmdb_season |-> "a"],
                     [default_tvdb_season |-> "movie", tmdb_season |-> "2"],
                     [default_tvdb_season |-> "1", tmdb_season |-> "2"],
                     [default_tvdb_season |-> "x", tmdb_season |-> "movie"],
                     [default_tvdb_season |-> "", tmdb_season |-> "0"],
                     [k \in {} |-> ""]}}
         \cup {[metadata |-> [k \in {} |-> ""], shape |-> "bad_metadata"]}
    ELSE {[metadata |-> [k \in {} |-> ""], shape |-> "ok"]}

MergeItems(m) ==
    UNION {{[service |-> s, id |-> i, type |-> t, external_ids |-> e,
             metadata |-> md.metadata, shape |-> md.shape] :
                i \in MergeLocalIds(s), t \in MergeTypes(s),
                e \in MergeExtMaps(m, s), md \in MergeMetadatas(s)} :
           s \in {s \in Range(SERVICES(m)) : MergeLocalIds(s) # {}}}

MergeInputs(m) ==
    {recs \in UNION {[1..n -> MergeItems(m)] : n \in 0..MaxRecords} :
        InFileOrder(m, recs)}

\* -------------------------------------------- input space of the load step
\* Entries load_all_data fails on: a file that does not parse, an entry that
\* is no object, an item whose external_ids is no mapping.
Malformed(m) ==
    UNION {{[service |-> s, id |-> "", type |-> "",
             external_ids |-> [k \in {} |-> ""],
             metadata |-> [k \in {} |-> ""], shape |-> sh] :
                sh \in {"unparsable_file", "not_object"}}
           \cup {[service |-> s, id |-> i, type |-> "TV",
                  external_ids |-> [k \in {} |-> ""],
                  metadata |-> [k \in {} |-> ""],
                  shape |-> "bad_external_ids"] : i \in LocalIds(s)} :
           s \in FileServices(m)}

LoadInputs(m) ==
    {recs \in UNION {[1..n -> Items(m) \cup Malformed(m)] : n \in 0..MaxRecords} :
        InFileOrder(m, recs) /\ WellPlaced(recs)}

\* ------------------------------------------------------------------ state
VARIABLES
    media,        \* "anime" (AnimeMapper) or "manga" (MangaMapper)
    input,        \* the items of the service files, in reading order
    run,          \* number of the current run on these files
    pc,           \* "load", "bfs", "xref", "merge" or "done"
    pos,          \* load_all_data: number of items read
    all_data,     \* self.all_data: <<service, id>> -> item
    id_graph,     \* self.id_graph: keys in insertion order and their sets
    visited,      \* build_cross_references: visited
    queue,        \* build_cross_references: queue of the running BFS
    cluster,      \* build_cross_references: cluster of the running BFS
    clusters,     \* build_cross_references: clusters
    ci,           \* index of the cluster the second loop is at
    todo,         \* members of clusters[ci] the loop has not iterated yet
    ids,          \* ids of the cluster the second loop is at
    cross_ref,    \* cross_ref: entries [key, ids] in insertion order
    cluster_out,  \* history: primary_key ("" for None) and ids of each cluster
    prev,         \* clusters and cross_ref of the previous run
    mi,           \* merge_to_final_format: number of entries of cross_ref merged
    final_list    \* merge_to_final_format: final_list

mapperVars ==
    << media, input, run, pc, pos, all_data, id_graph, visited, queue,
       cluster, clusters, ci, todo, ids, cross_ref, cluster_out, prev, mi, final_list >>

\* A scraper (BaseScraper and its subclasses), its files and the service.
VARIABLES
    scraper,             \* service_name of the scraper ("none": no scraper)
    last_page,           \* pages (AniDB: entries) the service holds
    checkpoint_file,     \* checkpoint file: <<>> (absent) or << page >>
    output_file,         \* output file: whether it exists, and its items
    checkpoint,          \* self.checkpoint: its "page" / "offset"
    page,                \* scrape: page, offset or idx
    results,             \* scrape: results
    self_results,        \* self.results
    consecutive_errors,  \* scrape: consecutive_errors
    spc,                 \* "new", "fetch", "scrape", "save", "done", "raised"
    srun,                \* number of scraper processes started
    first_page,          \* history: the page scrape started from
    outcome,             \* history: outcome of the last request
    processed            \* history: pages whose items a run collected

scraperVars ==
    << scraper, last_page, checkpoint_file, output_file, checkpoint, page,
       results, self_results, consecutive_errors, spc, srun, first_page,
       outcome, processed >>

\* MergeEnricher (data-mapper.py) and the cross-reference of
\* UniversalScraper (scraper.py), with their files.
VARIABLES
    program,            \* "MergeEnricher" or "UniversalScraper" ("none")
    artifacts,          \* the artifact files, in the order they are read
    base_files,         \* files of BASE_DIR: file -> content
    cross_ref_file,     \* CROSS_REF_FILE: <<>> (absent) or << cross_ref >>
    epc,                \* "merge", "group", "combine", "update", "save", "done"
    apos,               \* merge_artifacts: number of files read
    all_media,          \* self.all_media: keys in insertion order, entries
    merged_groups,      \* build_cross_references: merged_groups
    processed_media,    \* build_cross_references: processed_media
    current_group,      \* build_cross_references: current_group
    to_process,         \* build_cross_references: to_process
    gi,                 \* third pass: index of the group
    gtodo,              \* third pass: members of the group not iterated yet
    combined_mappings,  \* third pass: combined_mappings
    self_cross_ref,     \* self.cross_ref: entries [key, ids] in insertion order
    known_mappings,     \* UniversalScraper: mappings of the item scraped
    all_mappings,       \* UniversalScraper: get_complete_mappings' result
    scraped             \* UniversalScraper: number of items scraped

enricherVars ==
    << program, artifacts, base_files, cross_ref_file, epc, apos, all_media,
       merged_groups, processed_media, current_group, to_process, gi, gtodo,
       combined_mappings, self_cross_ref, known_mappings, all_mappings,
       scraped >>

vars == << mapperVars, scraperVars, enricherVars >>

EmptyMap == [k \in {} |-> ""]

EmptyGraph == [keys |-> <<>>, rel |-> EmptyMap]

NoPrev == [input |-> <<>>, clusters |-> {}, cross_ref |-> <<>>]

\* The state AnimeMapper.__init__ / MangaMapper.__init__ leave, and the
\* locals of build_cross_references before their first assignment.
Fresh ==
    /\ pc = "load"
    /\ pos = 0
    /\ all_data = EmptyMap
    /\ id_graph = EmptyGraph
    /\ visited = {}
    /\ queue = <<>>
    /\ cluster = {}
    /\ clusters = <<>>
    /\ ci = 0
    /\ todo = {}
    /\ ids = EmptyMap
    /\ cross_ref = <<>>
    /\ cluster_out = <<>>
    /\ mi = 0
    /\ final_list = <<>>

\* No scraper is part of the run.
NoScraper ==
    /\ scraper = "none"
    /\ last_page = 0
    /\ checkpoint_file = <<>>
    /\ output_file = [exists |-> FALSE, items |-> <<>>]
    /\ checkpoint = 0
    /\ page = 0
    /\ results = <<>>
    /\ self_results = <<>>
    /\ consecutive_errors = 0
    /\ spc = "new"
    /\ srun = 0
    /\ first_page = 0
    /\ outcome = "none"
    /\ processed = {}

\* MergeEnricher's locals before their first assignment.
FreshEnricher ==
    /\ epc = "merge"
    /\ apos = 0
    /\ all_media = [keys |-> <<>>, map |-> EmptyMap]
    /\ merged_groups = <<>>
    /\ processed_media = {}
    /\ current_group = {}
    /\ to_process = {}
    /\ gi = 0
    /\ gtodo = {}
    /\ combined_mappings = EmptyMap
    /\ self_cross_ref = <<>>

\* Neither MergeEnricher nor UniversalScraper is part of the run.
NoEnricher ==
    /\ program = "none"
    /\ artifacts = <<>>
    /\ base_files = EmptyMap
    /\ cross_ref_file = <<>>
    /\ FreshEnricher
    /\ known_mappings = EmptyMap
    /\ all_mappings = EmptyMap
    /\ scraped = 0

\* No mapper is part of the run.
NoMapper ==
    /\ media = "none"
    /\ input = <<>>
    /\ run = 0
    /\ prev = NoPrev
    /\ pc = "none"
    /\ pos = 0
    /\ all_data = EmptyMap
    /\ id_graph = EmptyGraph
    /\ visited = {}
    /\ queue = <<>>
    /\ cluster = {}
    /\ clusters = <<>>
    /\ ci = 0
    /\ todo = {}
    /\ ids = EmptyMap
    /\ cross_ref = <<>>
    /\ cluster_out = <<>>
    /\ mi = 0
    /\ final_list = <<>>

Init ==
    /\ media \in {"anime", "manga"}
    /\ input \in Inputs(media)
    /\ run = 1
    /\ prev = NoPrev
    /\ Fresh
    /\ NoScraper
    /\ NoEnricher

\* ------------------------------------------------------------ load_all_data
\* all_ids = {service: item_id, **external_ids}: the keys in dict order, the
\* value of the service key replaced by external_ids' one when it has one.
AllIdsKeys(m, item) ==
    << item.service >> \o
    SelectSeq(ExtKeyOrder(m),
              LAMBDA k : k \in DOMAIN item.external_ids /\ k # item.service)

AllIdsValue(item, k) ==
    IF k \in DOMAIN item.external_ids THEN item.external_ids[k] ELSE item.id

\* A mutation of LinkedIds: the filter "if i" is dropped, so the tuples of
\* the empty ids are linked too.
LinkedIdsAll(m, item) ==
    {<< k, AllIdsValue(item, k) >> : k \in Range(AllIdsKeys(m, item))}

\* The tuples (s, str(i)) for s, i in all_ids.items() if i.
LinkedIds(m, item) ==
    {<< k, AllIdsValue(item, k) >> :
        k \in {k \in Range(AllIdsKeys(m, item)) : AllIdsValue(item, k) # ""}}

\* self.id_graph[svc][str(svc_id)].update(nodes): a missing key is created at
\* the end of the dict.
GraphUpdate(g, node, nodes) ==
    IF node \in DOMAIN g.rel
    THEN [g EXCEPT !.rel[node] = @ \cup nodes]
    ELSE [keys |-> Append(g.keys, node), rel |-> g.rel @@ (node :> nodes)]

\* A mutation of LinkAll: a star, only the first key of all_ids (the
\* item's own) gets the nodes of the item.
LinkAllStar(m, g, item, keys, nodes) ==
    IF keys = <<>> \/ AllIdsValue(item, Head(keys)) = "" THEN g
    ELSE GraphUpdate(g, << Head(keys), AllIdsValue(item, Head(keys)) >>, nodes)

RECURSIVE LinkAll(_, _, _, _, _)
\* for svc, svc_id in all_ids.items(): if svc_id: ...update(...)
LinkAll(m, g, item, keys, nodes) ==
    IF keys = <<>> THEN g
    ELSE LET k == Head(keys)
             v == AllIdsValue(item, k)
         IN LinkAll(m,
                    IF v # "" THEN GraphUpdate(g, << k, v >>, nodes) ELSE g,
                    item, Tail(keys), nodes)

\* self.all_data[(service, item_id)] = item
Store(data, item) ==
    [n \in DOMAIN data \cup {<< item.service, item.id >>} |->
        IF n = << item.service, item.id >> THEN item ELSE data[n]]

\* A mutation of AfterError: the exception ends load_all_data.
AfterErrorAbort(recs, p) == Len(recs)

\* An exception raised at entry p leaves the try block, which holds the whole
\* loop over the file: the entries of the file after p are not read, the loop
\* over the services goes on with the next file.
AfterError(recs, p) ==
    CHOOSE q \in p..Len(recs) :
        /\ \A j \in p..q : recs[j].service = recs[p].service
        /\ q < Len(recs) => recs[q + 1].service # recs[p].service

\* Body of "for item in data": the next entry of the current file (for the
\* first entry of a file, after load_json of the file).
LoadItem ==
    /\ pc = "load"
    /\ pos < Len(input)
    /\ LET item == input[pos + 1]
       IN CASE item.shape \in {"unparsable_file", "not_object"} ->
                 \* load_json raises; item.get raises AttributeError
                 /\ pos' = AfterError(input, pos + 1)
                 /\ UNCHANGED << all_data, id_graph >>
            [] item.shape \notin {"unparsable_file", "not_object"}
                 /\ item.id = "" ->
                 \* if not item_id: continue
                 /\ pos' = pos + 1
                 /\ UNCHANGED << all_data, id_graph >>
            [] item.shape = "bad_external_ids" /\ item.id # "" ->
                 \* the item is stored, {service: item_id, **external_ids}
                 \* raises TypeError
                 /\ all_data' = Store(all_data, item)
                 /\ pos' = AfterError(input, pos + 1)
                 /\ UNCHANGED id_graph
            [] OTHER ->
                 /\ all_data' = Store(all_data, item)
                 /\ id_graph' = LinkAll(media, id_graph, item,
                                        AllIdsKeys(media, item),
                                        LinkedIds(media, item))
                 /\ pos' = pos + 1
    /\ UNCHANGED << scraperVars, enricherVars >>
    /\ UNCHANGED << media, input, run, pc, visited, queue, cluster, clusters,
                    ci, todo, ids, cross_ref, cluster_out, prev, mi, final_list >>

\* All files read: load_all_data returns and build_cross_references starts.
LoadDone ==
    /\ pc = "load"
    /\ pos = Len(input)
    /\ pc' = "bfs"
    /\ UNCHANGED << scraperVars, enricherVars >>
    /\ UNCHANGED << media, input, run, pos, all_data, id_graph, visited, queue,
                    cluster, clusters, ci, todo, ids, cross_ref, cluster_out,
                    prev, mi, final_list >>

\* ------------------------------------------------- build_cross_references
RECURSIVE DictOrder(_)
\* The order "for service, id_map in self.id_graph.items(): for item_id in
\* id_map.keys()" visits the keys: the services in the order of their first
\* insertion, the ids of one service in the order of theirs.
DictOrder(keys) ==
    IF keys = <<>> THEN <<>>
    ELSE LET s == Head(keys)[1]
         IN SelectSeq(keys, LAMBDA n : n[1] = s)
                \o DictOrder(SelectSeq(keys, LAMBDA n : n[1] # s))

\* A mutation of Related: the lookup misses and yields the default.
RelatedDefault(g, node) == {}

\* self.id_graph[curr_service].get(curr_id, set())
Related(g, node) == IF node \in DOMAIN g.rel THEN g.rel[node] ELSE {}

\* The related keys the pop of curr appends: those not visited yet.
ToEnqueue(g, curr, seen) == {n \in Related(g, curr) : n \notin seen}

\* The orders a Python set can be iterated in.
SetOrders(S) ==
    {o \in [1..Cardinality(S) -> S] : \A i, j \in DOMAIN o : o[i] = o[j] => i = j}

\* Positions of the outer loops whose key is not visited ("if key in
\* visited: continue" passes the others).
OpenKeys(g, seen) ==
    {i \in DOMAIN DictOrder(g.keys) : DictOrder(g.keys)[i] \notin seen}

\* A mutation of NewCluster: the set is created once, before the loops.
NewClusterOnce(old) == old

\* cluster = set()
NewCluster(old) == {}

\* A mutation of Enqueue: the loop over the related keys breaks after the
\* first one it appends.
EnqueueFirst(q, o) == IF o = <<>> THEN q ELSE Append(q, o[1])

\* queue.append(related_key) for the related keys in iteration order o.
Enqueue(q, o) == q \o o

\* The outer loops reach the next key that is not visited: a BFS starts.
BfsStart ==
    /\ pc = "bfs"
    /\ queue = <<>>
    /\ LET open == OpenKeys(id_graph, visited)
       IN /\ open # {}
          /\ LET first == CHOOSE i \in open : \A j \in open : i <= j
             IN queue' = << DictOrder(id_graph.keys)[first] >>
    /\ cluster' = NewCluster(cluster)
    /\ UNCHANGED << scraperVars, enricherVars >>
    /\ UNCHANGED << media, input, run, pc, pos, all_data, id_graph, visited,
                    clusters, ci, todo, ids, cross_ref, cluster_out, prev, mi, final_list >>

\* One turn of "while queue"; the turn that empties the queue is followed by
\* "if cluster: clusters.append(cluster)".
BfsPop ==
    /\ pc = "bfs"
    /\ queue # <<>>
    /\ LET curr_key == Head(queue)
       IN IF curr_key \in visited
          THEN /\ queue' = Tail(queue)
               /\ UNCHANGED << visited, cluster >>
          ELSE /\ visited' = visited \cup {curr_key}
               /\ cluster' = cluster \cup {curr_key}
               /\ \E o \in SetOrders(ToEnqueue(id_graph, curr_key, visited')) :
                      queue' = Enqueue(Tail(queue), o)
    /\ clusters' = IF queue' = <<>> /\ cluster' # {}
                   THEN Append(clusters, cluster')
                   ELSE clusters
    /\ UNCHANGED << scraperVars, enricherVars >>
    /\ UNCHANGED << media, input, run, pc, pos, all_data, id_graph, ci, todo,
                    ids, cross_ref, cluster_out, prev, mi, final_list >>

\* The outer loops are exhausted: the loop over the clusters starts.
BfsDone ==
    /\ pc = "bfs"
    /\ queue = <<>>
    /\ OpenKeys(id_graph, visited) = {}
    /\ pc' = "xref"
    /\ ci' = 1
    /\ todo' = IF clusters = <<>> THEN {} ELSE clusters[1]
    /\ UNCHANGED << scraperVars, enricherVars >>
    /\ UNCHANGED << media, input, run, pos, all_data, id_graph, visited, queue,
                    cluster, clusters, ids, cross_ref, cluster_out, prev, mi, final_list >>

\* A mutation of IdsAdd: the assignment is not guarded, the last id wins.
IdsAddLast(m, map, node) ==
    LET normalized == normalize_service_name(m, node[1])
    IN [k \in DOMAIN map \cup {normalized} |->
            IF k = normalized THEN node[2] ELSE map[k]]

\* if normalized not in ids: ids[normalized] = str(item_id)
IdsAdd(m, map, node) ==
    LET normalized == normalize_service_name(m, node[1])
    IN IF normalized \notin DOMAIN map
       THEN map @@ (normalized :> node[2])
       ELSE map

RECURSIVE FirstIn(_, _)
\* The first service of the list that is a key of the mapping ("" if none).
FirstIn(svcs, map) ==
    IF svcs = <<>> THEN ""
    ELSE IF Head(svcs) \in DOMAIN map THEN Head(svcs)
    ELSE FirstIn(Tail(svcs), map)

\* A mutation of PrimaryKey: only the base service gives a key, the other
\* services are not tried.
PrimaryKeyBaseOnly(m, map) ==
    LET base == IF m = "anime" THEN "anidb" ELSE "anilist"
    IN IF base \in DOMAIN map THEN base \o ":" \o map[base] ELSE ""

\* A mutation of PrimaryKey: anidb is tried last instead of first.
PrimaryKeyAnidbLast(m, map) ==
    LET svc == FirstIn(<< "anilist", "mal", "kitsu", "simkl", "anidb" >>, map)
    IN IF svc = "" THEN "" ELSE svc \o ":" \o map[svc]

\* A mutation of PrimaryKey: without a priority service the key falls back
\* to any id of the cluster.
PrimaryKeyAnyId(m, map) ==
    LET svc == FirstIn(<< "anidb", "anilist", "mal", "kitsu", "simkl" >>, map)
    IN IF svc # "" THEN svc \o ":" \o map[svc]
       ELSE IF DOMAIN map = {} THEN ""
       ELSE LET any == CHOOSE k \in DOMAIN map : TRUE
            IN any \o ":" \o map[any]

\* The primary key of a cluster's ids ("" stands for None).
PrimaryKey(m, map) ==
    IF m = "anime"
    THEN IF "anidb" \in DOMAIN map
         THEN "anidb" \o ":" \o map["anidb"]
         ELSE LET svc == FirstIn(AnimeFallback, map)
              IN IF svc = "" THEN "" ELSE svc \o ":" \o map[svc]
    ELSE IF "anilist" \in DOMAIN map
         THEN "anilist" \o ":" \o map["anilist"]
         ELSE LET svc == FirstIn([i \in DOMAIN MangaFallback |->
                                     normalize_service_name(m, MangaFallback[i])],
                                 map)
              IN IF svc = "" THEN "" ELSE svc \o ":" \o map[svc]

\* cross_ref[key] = value on a dict kept in insertion order.
DictSet(d, key, value) ==
    IF \E i \in DOMAIN d : d[i].key = key
    THEN [i \in DOMAIN d |-> IF d[i].key = key
                             THEN [key |-> key, ids |-> value] ELSE d[i]]
    ELSE Append(d, [key |-> key, ids |-> value])

\* One turn of "for service, item_id in cluster".
XrefIter ==
    /\ pc = "xref"
    /\ ci <= Len(clusters)
    /\ \E node \in todo :
          /\ ids' = IdsAdd(media, ids, node)
          /\ todo' = todo \ {node}
    /\ UNCHANGED << scraperVars, enricherVars >>
    /\ UNCHANGED << media, input, run, pc, pos, all_data, id_graph, visited,
                    queue, cluster, clusters, ci, cross_ref, cluster_out, prev, mi, final_list >>

\* The members of the cluster are iterated: its primary key is chosen and
\* its entry stored; the loop moves to the next cluster.
XrefKey ==
    /\ pc = "xref"
    /\ ci <= Len(clusters)
    /\ todo = {}
    /\ LET primary_key == PrimaryKey(media, ids)
       IN /\ cross_ref' = IF primary_key # ""
                          THEN DictSet(cross_ref, primary_key, ids)
                          ELSE cross_ref
          /\ cluster_out' = Append(cluster_out,
                                    [key |-> primary_key, ids |-> ids])
    /\ ci' = ci + 1
    /\ todo' = IF ci < Len(clusters) THEN clusters[ci + 1] ELSE {}
    /\ ids' = EmptyMap
    /\ UNCHANGED << scraperVars, enricherVars >>
    /\ UNCHANGED << media, input, run, pc, pos, all_data, id_graph, visited,
                    queue, cluster, clusters, prev, mi, final_list >>

\* return cross_ref; run() passes it to merge_to_final_format.
XrefReturn ==
    /\ pc = "xref"
    /\ ci > Len(clusters)
    /\ pc' = "merge"
    /\ UNCHANGED << scraperVars, enricherVars >>
    /\ UNCHANGED << media, input, run, pos, all_data, id_graph, visited, queue,
                    cluster, clusters, ci, todo, ids, cross_ref, cluster_out,
                    prev, mi, final_list >>

\* ---------------------------------------------------- merge_to_final_format
AnimeFIELD_MAP ==
    ("anidb" :> "anidb_id") @@ ("anilist" :> "anilist_id") @@
    ("mal" :> "mal_id") @@ ("myanimelist" :> "mal_id") @@
    ("animenewsnetwork" :> "animenewsnetwork_id") @@
    ("animeplanet" :> "anime-planet_id") @@
    ("anime-planet" :> "anime-planet_id") @@ ("kitsu" :> "kitsu_id") @@
    ("livechart" :> "livechart_id") @@ ("simkl" :> "simkl_id") @@
    ("themoviedb" :> "themoviedb_id") @@ ("tmdb" :> "themoviedb_id") @@
    ("tvdb" :> "tvdb_id") @@ ("thetvdb" :> "tvdb_id") @@ ("imdb" :> "imdb_id")

MangaFIELD_MAP ==
    ("anilist" :> "anilist_id") @@ ("mal" :> "mal_id") @@
    ("myanimelist" :> "mal_id") @@ ("kitsu" :> "kitsu_id")

FIELD_MAP(m) == IF m = "anime" THEN AnimeFIELD_MAP ELSE MangaFIELD_MAP

\* int() on the strings of the model; a string that is no key raises
\* ValueError.
IntOf ==
    ("1" :> 1) @@ ("3" :> 3) @@ ("5" :> 5) @@ ("7" :> 7) @@ ("10" :> 10) @@
    ("11" :> 11) @@ ("100" :> 100) @@ ("2" :> 2) @@ ("0" :> 0)

\* The order get_type_from_sources tries the services in.
TypeSources == << "anilist", "mal", "myanimelist", "kitsu" >>

RECURSIVE TypeFrom(_, _, _, _)
\* The loop of get_type_from_sources over the services left ("" for None).
\* AnimeMapper looks the service itself up in id_map, MangaMapper its
\* normalized name; both look (service, id) up in all_data.
TypeFrom(m, svcs, id_map, data) ==
    IF svcs = <<>> THEN ""
    ELSE LET service == Head(svcs)
             name == IF m = "anime" THEN service
                     ELSE normalize_service_name(m, service)
         IN IF /\ name \in DOMAIN id_map
               /\ << service, id_map[name] >> \in DOMAIN data
               /\ data[<< service, id_map[name] >>].type # ""
            THEN data[<< service, id_map[name] >>].type
            ELSE TypeFrom(m, Tail(svcs), id_map, data)

get_type_from_sources(m, id_map, data) == TypeFrom(m, TypeSources, id_map, data)

\* A mutation of SeasonField: the values that stand for no season are not
\* excluded.
SeasonFieldAny(metadata, field, name, excluded) ==
    IF field \in DOMAIN metadata /\ metadata[field] \in DOMAIN IntOf
    THEN (name :> IntOf[metadata[field]])
    ELSE [k \in {} |-> 0]

\* One season field: the value of the metadata field unless it is missing,
\* excluded or no integer.
SeasonField(metadata, field, name, excluded) ==
    IF /\ field \in DOMAIN metadata
       /\ metadata[field] # ""
       /\ metadata[field] \notin excluded
       /\ metadata[field] \in DOMAIN IntOf
    THEN (name :> IntOf[metadata[field]])
    ELSE [k \in {} |-> 0]

\* AnimeMapper.extract_season_info (the empty mapping stands for None);
\* MangaMapper has no season.
\* extract_season_info raises AttributeError: the metadata of the AniDB item
\* is no mapping and has no get.
SeasonRaises(m, id_map, data) ==
    /\ m = "anime"
    /\ "anidb" \in DOMAIN id_map
    /\ << "anidb", id_map["anidb"] >> \in DOMAIN data
    /\ data[<< "anidb", id_map["anidb"] >>].shape = "bad_metadata"

extract_season_info(m, id_map, data) ==
    IF /\ m = "anime"
       /\ "anidb" \in DOMAIN id_map
       /\ << "anidb", id_map["anidb"] >> \in DOMAIN data
    THEN LET metadata == data[<< "anidb", id_map["anidb"] >>].metadata
         IN SeasonField(metadata, "default_tvdb_season", "tvdb",
                        {"a", "0", "movie", "ova", ""})
            @@ SeasonField(metadata, "tmdb_season", "tmdb", {"a", "0", ""})
    ELSE [k \in {} |-> 0]

\* The services of id_map that assign the field: those FIELD_MAP maps to it
\* whose id converts (anime-planet ids are kept as strings).
FieldServices(m, id_map, field) ==
    {s \in DOMAIN id_map :
        /\ s \in DOMAIN FIELD_MAP(m)
        /\ FIELD_MAP(m)[s] = field
        /\ \/ m = "anime" /\ s \in {"animeplanet", "anime-planet"}
           \/ id_map[s] \in DOMAIN IntOf}

\* The fields "for service, service_id in id_map.items()" assigns.
IdFields(m, id_map) ==
    {f \in Range(FIELD_MAP(m)) : FieldServices(m, id_map, f) # {}}

\* A mutation of FieldValue: the id is stored as it is, a string, for every
\* service.
FieldValueStr(m, id_map, s) == id_map[s]

\* item[field_name] for the service whose assignment is the last one.
FieldValue(m, id_map, s) ==
    IF m = "anime" /\ s \in {"animeplanet", "anime-planet"}
    THEN id_map[s]
    ELSE IntOf[id_map[s]]

\* The item of one entry of cross_ref; last[f] is the service that assigns
\* field f last (id_map is in the order the cluster was iterated in).
FinalItem(m, id_map, data, last) ==
    LET item_type == get_type_from_sources(m, id_map, data)
        season == extract_season_info(m, id_map, data)
    IN (IF item_type # "" THEN ("type" :> item_type) ELSE [k \in {} |-> 0])
       @@ [f \in IdFields(m, id_map) |-> FieldValue(m, id_map, last[f])]
       @@ (IF DOMAIN season # {} THEN ("season" :> season) ELSE [k \in {} |-> 0])

\* The field final_list is sorted by.
SortField(m) == IF m = "anime" THEN "anidb_id" ELSE "anilist_id"

\* (x.get(field) is None, x.get(field, 999999999)) as a pair of numbers.
SortKey(m, item) ==
    IF SortField(m) \in DOMAIN item
    THEN << 0, item[SortField(m)] >>
    ELSE << 1, 999999999 >>

KeyLeq(a, b) == a[1] < b[1] \/ (a[1] = b[1] /\ a[2] <= b[2])

\* A mutation of Sorted: the list is returned as it was built.
SortedNot(m, list) == list

RECURSIVE Sorted(_, _)
\* list.sort(key=...): a stable sort.
Sorted(m, list) ==
    IF list = <<>> THEN <<>>
    ELSE LET rest == Sorted(m, SubSeq(list, 1, Len(list) - 1))
             x == list[Len(list)]
             before == SelectSeq(rest, LAMBDA y :
                                    KeyLeq(SortKey(m, y), SortKey(m, x)))
             after == SelectSeq(rest, LAMBDA y :
                                    ~ KeyLeq(SortKey(m, y), SortKey(m, x)))
         IN before \o << x >> \o after

\* A mutation of Emitted: an id that does not convert fails the item.
EmittedAllValid(m, id_map, data, item) ==
    /\ ~ SeasonRaises(m, id_map, data)
    /\ DOMAIN item \cap Range(FIELD_MAP(m)) # {}
    /\ \A s \in DOMAIN id_map \cap DOMAIN FIELD_MAP(m) :
          s \in FieldServices(m, id_map, FIELD_MAP(m)[s])

\* A mutation of Emitted: every item built is appended.
EmittedAlways(m, id_map, data, item) == ~ SeasonRaises(m, id_map, data)

\* The item is appended: no exception left the try block of the turn and
\* any(k in item for k in self.FIELD_MAP.values()).
Emitted(m, id_map, data, item) ==
    /\ ~ SeasonRaises(m, id_map, data)
    /\ DOMAIN item \cap Range(FIELD_MAP(m)) # {}

\* One turn of "for primary_key, id_map in cross_ref.items()".
MergeIter ==
    /\ pc = "merge"
    /\ mi < Len(cross_ref)
    /\ LET id_map == cross_ref[mi + 1].ids
       IN \E last \in [IdFields(media, id_map) -> DOMAIN id_map] :
             /\ \A f \in DOMAIN last :
                    last[f] \in FieldServices(media, id_map, f)
             /\ LET item == FinalItem(media, id_map, all_data, last)
                IN final_list' =
                       IF Emitted(media, id_map, all_data, item)
                       THEN Append(final_list, item)
                       ELSE final_list
    /\ mi' = mi + 1
    /\ UNCHANGED << scraperVars, enricherVars >>
    /\ UNCHANGED << media, input, run, pc, pos, all_data, id_graph, visited,
                    queue, cluster, clusters, ci, todo, ids, cross_ref,
                    cluster_out, prev >>

\* The entries are merged: final_list is sorted and returned, run() saves it.
MergeSort ==
    /\ pc = "merge"
    /\ mi = Len(cross_ref)
    /\ final_list' = Sorted(media, final_list)
    /\ pc' = "done"
    /\ UNCHANGED << scraperVars, enricherVars >>
    /\ UNCHANGED << media, input, run, pos, all_data, id_graph, visited, queue,
                    cluster, clusters, ci, todo, ids, cross_ref, cluster_out,
                    prev, mi >>

\* ------------------------------------------------------------------- runs
\* The same items with the items of each file in another order.
Reordered(m, recs) ==
    {[i \in DOMAIN recs |-> recs[p[i]]] :
        p \in {p \in SetOrders(DOMAIN recs) :
                 /\ InFileOrder(m, [i \in DOMAIN recs |-> recs[p[i]]])
                 /\ WellPlaced([i \in DOMAIN recs |-> recs[p[i]]])}}

\* The mapper is started again (scripts/run_mapper.py builds a new mapper) on
\* the same items; what the finished run found is kept for comparison.
Restart ==
    /\ pc = "done"
    /\ run < MaxRuns
    /\ run' = run + 1
    /\ prev' = [input |-> input, clusters |-> Range(clusters),
                cross_ref |-> cross_ref]
    /\ input' \in Reordered(media, input)
    /\ pc' = "load"
    /\ pos' = 0
    /\ all_data' = EmptyMap
    /\ id_graph' = EmptyGraph
    /\ visited' = {}
    /\ queue' = <<>>
    /\ cluster' = {}
    /\ clusters' = <<>>
    /\ ci' = 0
    /\ todo' = {}
    /\ ids' = EmptyMap
    /\ cross_ref' = <<>>
    /\ cluster_out' = <<>>
    /\ mi' = 0
    /\ final_list' = <<>>
    /\ UNCHANGED << scraperVars, enricherVars >>
    /\ UNCHANGED media

Next ==
    \/ LoadItem
    \/ LoadDone
    \/ BfsStart
    \/ BfsPop
    \/ BfsDone
    \/ XrefIter
    \/ XrefKey
    \/ XrefReturn
    \/ MergeIter
    \/ MergeSort
    \/ Restart

Spec == Init /\ [][Next]_vars

\* The mapper on the input space of the merge step.
InitMerge ==
    /\ media \in {"anime", "manga"}
    /\ input \in MergeInputs(media)
    /\ run = 1
    /\ prev = NoPrev
    /\ Fresh
    /\ NoScraper
    /\ NoEnricher

SpecMerge == InitMerge /\ [][Next]_vars

\* The mapper on the input space of the load step.
InitLoad ==
    /\ media \in {"anime", "manga"}
    /\ input \in LoadInputs(media)
    /\ run = 1
    /\ prev = NoPrev
    /\ Fresh
    /\ NoScraper
    /\ NoEnricher

SpecLoad == InitLoad /\ [][Next]_vars

\* ================================================================ scrapers
\* Pages (AniDB: entries) a service holds at most.
MaxPages == 3
\* Number of scraper processes run one after the other on the same files.
MaxScrapes == 3

max_consecutive_errors == 5

\* Kitsu's page size: the offset moves by it.
limit == 20

Scrapers == {"anidb", "anilist", "myanimelist", "kitsu"}

\* The scrapers that count consecutive errors.
Retrying == {"myanimelist", "kitsu"}

\* default_checkpoint of the key scrape reads: "offset" for Kitsu, "page"
\* for the others.
DefaultCheckpoint(s) == IF s = "kitsu" THEN 0 ELSE 1

\* page += 1 / offset += limit
PageStep(s) == IF s = "kitsu" THEN limit ELSE 1

\* Position of the last page of a service of n pages.
LastPosition(s, n) == DefaultCheckpoint(s) + PageStep(s) * (n - 1)

\* load_checkpoint, and the key scrape reads from it.
load_checkpoint(s, file) ==
    IF file = <<>> THEN DefaultCheckpoint(s) ELSE file[1]

\* A mutation of save_results: the items are added to those of the file.
save_resultsAppend(old, items) ==
    [exists |-> TRUE, items |-> old.items \o items]

\* save_results: save_json overwrites the output file.
save_results(old, items) == [exists |-> TRUE, items |-> items]

\* The except branches of run: "if self.results: self.save_results()".
SavedOnError(old, items) ==
    IF items # <<>> THEN save_results(old, items) ELSE old

\* One scraper and its service; no file exists yet.
InitScrape ==
    /\ NoMapper
    /\ NoEnricher
    /\ scraper \in Scrapers
    /\ last_page \in 1..MaxPages
    /\ checkpoint_file = <<>>
    /\ output_file = [exists |-> FALSE, items |-> <<>>]
    /\ checkpoint = 0
    /\ page = 0
    /\ results = <<>>
    /\ self_results = <<>>
    /\ consecutive_errors = 0
    /\ spc = "new"
    /\ srun = 0
    /\ first_page = 0
    /\ outcome = "none"
    /\ processed = {}

\* A scraper process starts: BaseScraper.__init__ loads the checkpoint, run
\* calls scrape, which reads its start from the checkpoint.
ScraperStart ==
    /\ spc \in {"new", "done", "raised"}
    /\ srun < MaxScrapes
    /\ srun' = srun + 1
    /\ checkpoint' = load_checkpoint(scraper, checkpoint_file)
    /\ page' = IF scraper = "anidb" THEN 0 ELSE checkpoint'
    /\ first_page' = page'
    /\ results' = <<>>
    /\ self_results' = <<>>
    /\ consecutive_errors' = 0
    /\ outcome' = "none"
    /\ spc' = IF scraper = "anidb" THEN "fetch" ELSE "scrape"
    /\ UNCHANGED << scraper, last_page, checkpoint_file, output_file,
                    processed >>
    /\ UNCHANGED << mapperVars, enricherVars >>

\* AniDBScraper.scrape fetches and parses the XML; a failure is re-raised
\* and reaches the except branch of run.
AniDBFetch ==
    /\ scraper = "anidb"
    /\ spc = "fetch"
    /\ \E o \in {"ok", "raise"} :
          /\ outcome' = o
          /\ IF o = "ok"
             THEN /\ spc' = "scrape"
                  /\ UNCHANGED output_file
             ELSE /\ spc' = "raised"
                  /\ output_file' = SavedOnError(output_file, self_results)
    /\ UNCHANGED << scraper, last_page, checkpoint_file, checkpoint, page,
                    results, self_results, consecutive_errors, srun,
                    first_page, processed >>
    /\ UNCHANGED << mapperVars, enricherVars >>

\* One turn of "for idx, anime in enumerate(...)": the entry is appended, or
\* skipped (no anidbid, or an exception caught in the turn).
AniDBItem ==
    /\ scraper = "anidb"
    /\ spc = "scrape"
    /\ page < last_page
    /\ page' = page + 1
    /\ \E kept \in BOOLEAN :
          results' = IF kept THEN Append(results, page') ELSE results
    /\ UNCHANGED << scraper, last_page, checkpoint_file, output_file,
                    checkpoint, self_results, consecutive_errors, spc, srun,
                    first_page, outcome, processed >>
    /\ UNCHANGED << mapperVars, enricherVars >>

\* AniDBScraper.scrape returns: self.results = self.scrape().
AniDBReturn ==
    /\ scraper = "anidb"
    /\ spc = "scrape"
    /\ page = last_page
    /\ self_results' = results
    /\ spc' = "save"
    /\ UNCHANGED << scraper, last_page, checkpoint_file, output_file,
                    checkpoint, page, results, consecutive_errors, srun,
                    first_page, outcome, processed >>
    /\ UNCHANGED << mapperVars, enricherVars >>

\* One turn of "while True" of AniListAnimeScraper.scrape; a turn that
\* breaks is followed by "return results" and self.results = ...
\* The request is answered with a page ("ok": empty past the last page),
\* with GraphQL errors, with a rate limit error, or it raises.
AniListPage ==
    /\ scraper = "anilist"
    /\ spc = "scrape"
    /\ \E o \in {"ok", "errors", "rate_limited", "raise"}, kept \in BOOLEAN :
          /\ outcome' = o
          /\ CASE o = "raise" ->
                    /\ checkpoint' = page
                    /\ checkpoint_file' = << page >>
                    /\ self_results' = results
                    /\ spc' = "save"
                    /\ UNCHANGED << page, results, processed >>
               [] o = "errors" \/ (o = "ok" /\ page > last_page) ->
                    /\ self_results' = results
                    /\ spc' = "save"
                    /\ UNCHANGED << checkpoint, checkpoint_file, page,
                                    results, processed >>
               [] o = "rate_limited" ->
                    UNCHANGED << checkpoint, checkpoint_file, page, results,
                                 processed, self_results, spc >>
               [] o = "ok" /\ page <= last_page ->
                    /\ results' = IF kept THEN Append(results, page)
                                  ELSE results
                    /\ processed' = processed \cup {page}
                    /\ checkpoint' = page + 1
                    /\ checkpoint_file' = << page + 1 >>
                    /\ IF page = last_page
                       THEN /\ self_results' = results'
                            /\ spc' = "save"
                            /\ UNCHANGED page
                       ELSE /\ page' = page + 1
                            /\ UNCHANGED << self_results, spc >>
    /\ UNCHANGED << scraper, last_page, output_file, consecutive_errors,
                    srun, first_page >>
    /\ UNCHANGED << mapperVars, enricherVars >>

\* One turn of "while True" of MyAnimeListAnimeScraper.scrape and
\* KitsuMangaScraper.scrape. session.get raises on a failed request and on a
\* status of 400 and more ("raise"), or returns a response: of another
\* status than 200 ("not200"), of status 200 with a body that json() or the
\* lines after it raise on ("badbody"), or of status 200 with a page ("ok").
RetryPage ==
    /\ scraper \in Retrying
    /\ spc = "scrape"
    /\ \E o \in {"ok", "raise", "not200", "badbody"}, kept \in BOOLEAN :
          /\ outcome' = o
          /\ CASE o \in {"raise", "not200"} ->
                    /\ consecutive_errors' = consecutive_errors + 1
                    /\ IF consecutive_errors' >= max_consecutive_errors
                       THEN /\ self_results' = results
                            /\ spc' = "save"
                       ELSE UNCHANGED << self_results, spc >>
                    /\ UNCHANGED << checkpoint, checkpoint_file, page,
                                    results, processed >>
               [] o = "badbody" ->
                    \* consecutive_errors = 0, then the except branch
                    /\ consecutive_errors' = 0 + 1
                    /\ IF consecutive_errors' >= max_consecutive_errors
                       THEN /\ self_results' = results
                            /\ spc' = "save"
                       ELSE UNCHANGED << self_results, spc >>
                    /\ UNCHANGED << checkpoint, checkpoint_file, page,
                                    results, processed >>
               [] o = "ok" /\ page > LastPosition(scraper, last_page) ->
                    /\ consecutive_errors' = 0
                    /\ self_results' = results
                    /\ spc' = "save"
                    /\ UNCHANGED << checkpoint, checkpoint_file, page,
                                    results, processed >>
               [] o = "ok" /\ page <= LastPosition(scraper, last_page) ->
                    /\ consecutive_errors' = 0
                    /\ results' = IF kept THEN Append(results, page)
                                  ELSE results
                    /\ processed' = processed \cup {page}
                    /\ checkpoint' = page + PageStep(scraper)
                    /\ checkpoint_file' = << page + PageStep(scraper) >>
                    /\ IF page = LastPosition(scraper, last_page)
                       THEN /\ self_results' = results'
                            /\ spc' = "save"
                            /\ UNCHANGED page
                       ELSE /\ page' = page + PageStep(scraper)
                            /\ UNCHANGED << self_results, spc >>
    /\ UNCHANGED << scraper, last_page, output_file, srun, first_page >>
    /\ UNCHANGED << mapperVars, enricherVars >>

\* run: self.save_results() after scrape has returned.
RunSave ==
    /\ spc = "save"
    /\ output_file' = save_results(output_file, self_results)
    /\ spc' = "done"
    /\ UNCHANGED << scraper, last_page, checkpoint_file, checkpoint, page,
                    results, self_results, consecutive_errors, srun,
                    first_page, outcome, processed >>
    /\ UNCHANGED << mapperVars, enricherVars >>

\* The run is interrupted: no scraper catches KeyboardInterrupt, the except
\* branch of run saves self.results if it holds items, and re-raises.
KeyboardInterrupt ==
    /\ scraper # "none"
    /\ spc \in {"fetch", "scrape", "save"}
    /\ output_file' = SavedOnError(output_file, self_results)
    /\ spc' = "raised"
    /\ UNCHANGED << scraper, last_page, checkpoint_file, checkpoint, page,
                    results, self_results, consecutive_errors, srun,
                    first_page, outcome, processed >>
    /\ UNCHANGED << mapperVars, enricherVars >>

NextScrape ==
    \/ ScraperStart
    \/ AniDBFetch
    \/ AniDBItem
    \/ AniDBReturn
    \/ AniListPage
    \/ RetryPage
    \/ RunSave
    \/ KeyboardInterrupt

SpecScrape == InitScrape /\ [][NextScrape]_vars

\* ==================================================== merge and enrich
\* Number of artifact files.
MaxArtifacts == 3
\* Number of items UniversalScraper scrapes.
MaxScraped == 3

\* The keys of combined_mappings, and of the mappings the scrapers write.
MappingServices ==
    << "anilist", "mal", "kitsu", "anidb", "simkl", "tmdb", "imdb" >>

\* combined_mappings as the third pass creates it.
EmptyMappings == [s \in Range(MappingServices) |-> ""]

\* The order the third pass tries the services in for the primary key.
EnricherPriority == << "anilist", "mal", "kitsu", "simkl", "anidb" >>

\* The artifact directories data-<service>-<media_type> of the model and
\* the ids of their files.
ArtifactServices == {"anilist", "mal"}

MediaTypes == {"anime", "manga"}

ArtifactIds == {"1", "2"}

\* id_mappings of a file of the service: its own id, and the id of the
\* other service or "".
ArtifactMappings(service, id) ==
    {[s \in Range(MappingServices) |->
         IF s = service THEN id
         ELSE IF s \in ArtifactServices THEN other ELSE ""] :
       other \in ArtifactIds \cup {""}}

\* The content of one artifact file; its "data" is named by the file.
ArtifactFiles ==
    {[service |-> s, media_type |-> t, media_id |-> i, mappings |-> m] :
        s \in ArtifactServices, t \in MediaTypes, i \in ArtifactIds,
        m \in UNION {ArtifactMappings(s2, i2) :
                        s2 \in ArtifactServices, i2 \in ArtifactIds}}

FileOf(rec) == << rec.service, rec.media_type, rec.media_id >>

\* The artifact files in an order iterdir and glob may give them in: one
\* file per directory and id, with the id_mappings of its service and id.
ArtifactInputs ==
    UNION {{a \in [1..n -> ArtifactFiles] :
               /\ \A j \in 1..n :
                     a[j].mappings \in
                         ArtifactMappings(a[j].service, a[j].media_id)
               /\ \A j, k \in 1..n : FileOf(a[j]) = FileOf(a[k]) => j = k} :
           n \in 1..MaxArtifacts}

\* The files of BASE_DIR: those of the artifacts, as the scrapers wrote them.
BaseFiles(arts) ==
    [f \in {FileOf(arts[j]) : j \in DOMAIN arts} |->
        LET rec == arts[CHOOSE j \in DOMAIN arts : FileOf(arts[j]) = f]
        IN [format |-> "scraped", service |-> rec.service,
            media_type |-> rec.media_type, media_id |-> rec.media_id,
            id_mappings |-> rec.mappings]]

\* The mappings UniversalScraper builds for an item of the service.
ScrapedMappings(service) ==
    {[s \in Range(MappingServices) |->
         CASE s = "anilist" -> a [] s = "mal" -> m [] s = "kitsu" -> k
           [] OTHER -> ""] :
       a \in IF service = "anilist" THEN ArtifactIds ELSE ArtifactIds \cup {""},
       m \in IF service = "mal" THEN ArtifactIds ELSE ArtifactIds \cup {""},
       k \in {"", "1"}}

InitEnrich ==
    /\ NoMapper
    /\ NoScraper
    /\ program \in {"MergeEnricher", "UniversalScraper"}
    /\ artifacts \in IF program = "MergeEnricher" THEN ArtifactInputs
                     ELSE {<<>>}
    /\ base_files = IF program = "MergeEnricher" THEN BaseFiles(artifacts)
                    ELSE EmptyMap
    /\ cross_ref_file = <<>>
    /\ FreshEnricher
    /\ known_mappings = EmptyMap
    /\ all_mappings = EmptyMap
    /\ scraped = 0

\* A mutation of FillField: a later non-empty value replaces the field.
FillFieldLast(old, v) == IF v # "" THEN v ELSE old

\* "if v and not m.get(s): m[s] = v" on one field.
FillField(old, v) == IF v # "" /\ old = "" THEN v ELSE old

\* The loop "for service, service_id in mappings.items()" over a mapping.
FillAll(into, from) == [s \in DOMAIN into |-> FillField(into[s], from[s])]

\* d[key] = value on a dict kept in insertion order.
DictPut(d, key, value) ==
    [keys |-> IF key \in DOMAIN d.map THEN d.keys ELSE Append(d.keys, key),
     map |-> [k \in DOMAIN d.map \cup {key} |->
                 IF k = key THEN value ELSE d.map[k]]]

\* merge_artifacts: one json file is read and stored under "service:id".
MergeArtifact ==
    /\ program = "MergeEnricher"
    /\ epc = "merge"
    /\ apos < Len(artifacts)
    /\ LET data == artifacts[apos + 1]
           media_key == data.service \o ":" \o data.media_id
       IN all_media' =
              DictPut(all_media, media_key,
                      [service |-> data.service,
                       media_type |-> data.media_type,
                       media_id |-> data.media_id,
                       mappings |-> data.mappings,
                       data |-> FileOf(data)])
    /\ apos' = apos + 1
    /\ UNCHANGED << program, artifacts, base_files, cross_ref_file, epc,
                    merged_groups, processed_media, current_group,
                    to_process, gi, gtodo, combined_mappings, self_cross_ref,
                    known_mappings, all_mappings, scraped >>
    /\ UNCHANGED << mapperVars, scraperVars >>

\* merge_artifacts returns, build_cross_references starts.
MergeArtifactsDone ==
    /\ program = "MergeEnricher"
    /\ epc = "merge"
    /\ apos = Len(artifacts)
    /\ epc' = "group"
    /\ UNCHANGED << program, artifacts, base_files, cross_ref_file, apos,
                    all_media, merged_groups, processed_media, current_group,
                    to_process, gi, gtodo, combined_mappings, self_cross_ref,
                    known_mappings, all_mappings, scraped >>
    /\ UNCHANGED << mapperVars, scraperVars >>

\* The first pass and its use: the media of id_to_media[id_key] for the
\* non-empty ids of the mappings of media_key.
SharingMedia(am, media_key) ==
    {r \in DOMAIN am.map :
        \E s \in DOMAIN am.map[media_key].mappings :
            /\ am.map[media_key].mappings[s] # ""
            /\ s \in DOMAIN am.map[r].mappings
            /\ am.map[r].mappings[s] = am.map[media_key].mappings[s]}

\* A mutation of ToProcessAdd: the related media are not queued.
ToProcessAddNone(new, done) == {}

\* "if related_media not in processed_media: to_process.add(related_media)"
\* for the media added to the group.
ToProcessAdd(new, done) == {r \in new : r \notin done}

\* The second pass reaches the next media_key that is not processed.
GroupStart ==
    /\ program = "MergeEnricher"
    /\ epc = "group"
    /\ to_process = {}
    /\ \E i \in DOMAIN all_media.keys :
          /\ all_media.keys[i] \notin processed_media
          /\ \A j \in 1..(i - 1) : all_media.keys[j] \in processed_media
          /\ current_group' = {all_media.keys[i]}
          /\ to_process' = {all_media.keys[i]}
    /\ UNCHANGED << program, artifacts, base_files, cross_ref_file, epc,
                    apos, all_media, merged_groups, processed_media, gi,
                    gtodo, combined_mappings, self_cross_ref, known_mappings,
                    all_mappings, scraped >>
    /\ UNCHANGED << mapperVars, scraperVars >>

\* One turn of "while to_process"; the turn that empties it is followed by
\* merged_groups.append(current_group).
GroupPop ==
    /\ program = "MergeEnricher"
    /\ epc = "group"
    /\ \E processing \in to_process :
          LET new == SharingMedia(all_media, processing) \ current_group
          IN /\ processed_media' = processed_media \cup {processing}
             /\ current_group' = current_group \cup new
             /\ to_process' = (to_process \ {processing})
                                 \cup ToProcessAdd(new, processed_media')
    /\ merged_groups' = IF to_process' = {}
                        THEN Append(merged_groups, current_group')
                        ELSE merged_groups
    /\ UNCHANGED << program, artifacts, base_files, cross_ref_file, epc,
                    apos, all_media, gi, gtodo, combined_mappings,
                    self_cross_ref, known_mappings, all_mappings, scraped >>
    /\ UNCHANGED << mapperVars, scraperVars >>

\* The second pass is over: the third pass starts with the first group.
GroupsDone ==
    /\ program = "MergeEnricher"
    /\ epc = "group"
    /\ to_process = {}
    /\ \A i \in DOMAIN all_media.keys : all_media.keys[i] \in processed_media
    /\ epc' = "combine"
    /\ gi' = 1
    /\ gtodo' = merged_groups[1]
    /\ combined_mappings' = EmptyMappings
    /\ UNCHANGED << program, artifacts, base_files, cross_ref_file, apos,
                    all_media, merged_groups, processed_media, current_group,
                    to_process, self_cross_ref, known_mappings, all_mappings,
                    scraped >>
    /\ UNCHANGED << mapperVars, scraperVars >>

\* One turn of "for media_key in group": the mappings of the media fill
\* the fields of combined_mappings that are empty.
CombineIter ==
    /\ program = "MergeEnricher"
    /\ epc = "combine"
    /\ gi <= Len(merged_groups)
    /\ \E media_key \in gtodo :
          /\ combined_mappings' =
                 FillAll(combined_mappings, all_media.map[media_key].mappings)
          /\ gtodo' = gtodo \ {media_key}
    /\ UNCHANGED << program, artifacts, base_files, cross_ref_file, epc,
                    apos, all_media, merged_groups, processed_media,
                    current_group, to_process, gi, self_cross_ref,
                    known_mappings, all_mappings, scraped >>
    /\ UNCHANGED << mapperVars, scraperVars >>

\* The primary key of combined mappings ("" stands for None).
EnricherPrimaryKey(map) ==
    LET svc == FirstIn(EnricherPriority,
                       [s \in {s \in DOMAIN map : map[s] # ""} |-> map[s]])
    IN IF svc = "" THEN "" ELSE svc \o ":" \o map[svc]

\* The group is iterated: its primary key is chosen and its entry stored;
\* the third pass moves to the next group.
CombineKey ==
    /\ program = "MergeEnricher"
    /\ epc = "combine"
    /\ gi <= Len(merged_groups)
    /\ gtodo = {}
    /\ LET primary_key == EnricherPrimaryKey(combined_mappings)
       IN self_cross_ref' = IF primary_key # ""
                            THEN DictSet(self_cross_ref, primary_key,
                                         combined_mappings)
                            ELSE self_cross_ref
    /\ gi' = gi + 1
    /\ gtodo' = IF gi < Len(merged_groups) THEN merged_groups[gi + 1] ELSE {}
    /\ combined_mappings' = EmptyMappings
    /\ epc' = IF gi < Len(merged_groups) THEN "combine" ELSE "update"
    /\ UNCHANGED << program, artifacts, base_files, cross_ref_file, apos,
                    all_media, merged_groups, processed_media, current_group,
                    to_process, known_mappings, all_mappings, scraped >>
    /\ UNCHANGED << mapperVars, scraperVars >>

\* The files of BASE_DIR update_all_files has not rewritten yet.
Pending(files) == {f \in DOMAIN files : files[f].format = "scraped"}

\* complete_mappings: the first entry of cross_ref with the id of the file
\* for its service, else the id_mappings of the file.
CompleteMappings(xref, file) ==
    LET hit == {i \in DOMAIN xref : xref[i].ids[file.service] = file.media_id}
    IN IF hit # {}
       THEN xref[CHOOSE i \in hit : \A j \in hit : i <= j].ids
       ELSE file.id_mappings

\* updated_record: the flat structure, with the data of each service the
\* complete mappings hold an id of (<<>> stands for None). The files of
\* BASE_DIR are those of the artifacts, so a key that all_media lacks has no
\* file to fall back to either.
UpdatedRecord(am, xref, file) ==
    LET complete == CompleteMappings(xref, file)
    IN [format |-> "flat", service |-> file.service,
        media_type |-> file.media_type, media_id |-> file.media_id,
        services |->
            [s \in Range(MappingServices) |->
                LET search_key == s \o ":" \o complete[s]
                IN IF complete[s] # "" /\ search_key \in DOMAIN am.map
                   THEN am.map[search_key].data
                   ELSE <<>>]]

\* update_all_files: one file of BASE_DIR is rewritten in place.
UpdateFile ==
    /\ program = "MergeEnricher"
    /\ epc = "update"
    /\ \E f \in Pending(base_files) :
          base_files' =
              [base_files EXCEPT
                  ![f] = UpdatedRecord(all_media, self_cross_ref, @)]
    /\ UNCHANGED << program, artifacts, cross_ref_file, epc, apos, all_media,
                    merged_groups, processed_media, current_group,
                    to_process, gi, gtodo, combined_mappings, self_cross_ref,
                    known_mappings, all_mappings, scraped >>
    /\ UNCHANGED << mapperVars, scraperVars >>

\* update_all_files returns; save_cross_reference writes CROSS_REF_FILE.
SaveCrossReference ==
    /\ program = "MergeEnricher"
    /\ epc = "update"
    /\ Pending(base_files) = {}
    /\ cross_ref_file' = << self_cross_ref >>
    /\ epc' = "done"
    /\ UNCHANGED << program, artifacts, base_files, apos, all_media,
                    merged_groups, processed_media, current_group,
                    to_process, gi, gtodo, combined_mappings, self_cross_ref,
                    known_mappings, all_mappings, scraped >>
    /\ UNCHANGED << mapperVars, scraperVars >>

\* The merge of get_complete_mappings with one entry of cross_ref: if an id
\* of the entry matches, its ids fill the empty fields.
MergeRef(all, ref) ==
    IF \E s \in DOMAIN ref : ref[s] # "" /\ all[s] = ref[s]
    THEN FillAll(all, ref)
    ELSE all

RECURSIVE CompleteFrom(_, _)
\* "for key, ref_mappings in self.cross_ref.items()"
CompleteFrom(all, refs) ==
    IF refs = <<>> THEN all
    ELSE CompleteFrom(MergeRef(all, Head(refs).ids), Tail(refs))

\* UniversalScraper.get_complete_mappings
get_complete_mappings(xref, current_service, current_id, known) ==
    CompleteFrom([known EXCEPT ![current_service] = current_id], xref)

\* The key of update_cross_reference: the first id the mappings hold.
UpdateKey(mappings) ==
    LET svc == FirstIn(MappingServices,
                       [s \in {s \in DOMAIN mappings : mappings[s] # ""} |->
                           mappings[s]])
    IN IF svc = "" THEN "" ELSE svc \o ":" \o mappings[svc]

\* UniversalScraper.update_cross_reference
update_cross_reference(xref, mappings) ==
    LET primary_key == UpdateKey(mappings)
    IN IF primary_key = "" THEN xref
       ELSE IF \E i \in DOMAIN xref : xref[i].key = primary_key
       THEN [i \in DOMAIN xref |->
                IF xref[i].key = primary_key
                THEN [key |-> primary_key,
                      ids |-> FillAll(xref[i].ids, mappings)]
                ELSE xref[i]]
       ELSE Append(xref, [key |-> primary_key, ids |-> mappings])

\* UniversalScraper scrapes one item of a service: save_media completes its
\* mappings from cross_ref, update_cross_reference records them.
ScrapeItem ==
    /\ program = "UniversalScraper"
    /\ scraped < MaxScraped
    /\ \E service \in ArtifactServices :
          \E mappings \in ScrapedMappings(service) :
             /\ known_mappings' = mappings
             /\ all_mappings' = get_complete_mappings(
                                    self_cross_ref, service,
                                    mappings[service], mappings)
             /\ self_cross_ref' =
                    update_cross_reference(self_cross_ref, mappings)
    /\ scraped' = scraped + 1
    /\ UNCHANGED << program, artifacts, base_files, cross_ref_file, epc,
                    apos, all_media, merged_groups, processed_media,
                    current_group, to_process, gi, gtodo, combined_mappings >>
    /\ UNCHANGED << mapperVars, scraperVars >>

NextEnrich ==
    \/ MergeArtifact
    \/ MergeArtifactsDone
    \/ GroupStart
    \/ GroupPop
    \/ GroupsDone
    \/ CombineIter
    \/ CombineKey
    \/ UpdateFile
    \/ SaveCrossReference
    \/ ScrapeItem

SpecEnrich == InitEnrich /\ [][NextEnrich]_vars

\* ================================================================== claims
\* The entry makes load_all_data raise an exception.
Raises(e) ==
    \/ e.shape \in {"unparsable_file", "not_object"}
    \/ e.shape = "bad_external_ids" /\ e.id # ""

\* The entry is not read: an entry before it in its file raised.
Unread(i) ==
    \E j \in 1..(i - 1) :
        input[j].service = input[i].service /\ Raises(input[j])

\* The positions of the items load_all_data has stored and linked so far.
Ingested ==
    {i \in 1..pos : /\ input[i].id # ""
                    /\ input[i].shape \in {"ok", "bad_metadata"}
                    /\ ~ Unread(i)}

\* The nodes one item contributes: its own (service, id), which an entry of
\* external_ids for its own service replaces, and every external (service,
\* id); an empty id is no node.
RecordNodes(item) ==
    LET ext == item.external_ids
        own == IF item.service \in DOMAIN ext THEN ext[item.service] ELSE item.id
    IN {n \in {<< item.service, own >>} \cup {<< k, ext[k] >> : k \in DOMAIN ext} :
            n[2] # ""}

NodesPut == UNION {RecordNodes(input[i]) : i \in Ingested}

\* build_cross_references has returned: clusters and cross_ref are final.
Traversed == pc = "done"

ClustersOf(n) == {c \in DOMAIN clusters : n \in clusters[c]}

\* C1 (completeness): after the traversal every node that an ingested record
\* put into the ID graph is a member of exactly one cluster.
C1_Completeness ==
    Traversed => \A n \in NodesPut : Cardinality(ClustersOf(n)) = 1

\* Two records gave two clusters and five or more nodes.
C1_Witness ==
    /\ pc = "done"
    /\ Len(clusters) = 2
    /\ Cardinality(NodesPut) >= 5
    /\ \A n \in NodesPut : ClustersOf(n) # {}

RECURSIVE Chain(_)
\* The records a chain of records with a shared node joins to those of S.
Chain(S) ==
    LET T == S \cup {j \in Ingested :
                       \E i \in S : RecordNodes(input[i]) \cap RecordNodes(input[j]) # {}}
    IN IF T = S THEN S ELSE Chain(T)

ChainNodes(i) == UNION {RecordNodes(input[j]) : j \in Chain({i})}

\* C2 (transitivity): the nodes of all records of a chain of records, each
\* sharing a node with the next, are in one cluster.
C2_Transitivity ==
    Traversed =>
        \A i \in Ingested :
            ChainNodes(i) # {} =>
                \E c \in DOMAIN clusters : ChainNodes(i) \subseteq clusters[c]

\* anilist:1 and kitsu:100 are in one cluster, joined through mal:10 by two
\* records none of which names both.
C2_Witness ==
    /\ pc = "done"
    /\ \E c \in DOMAIN clusters :
          {<< "anilist", "1" >>, << "mal", "10" >>, << "kitsu", "100" >>}
              \subseteq clusters[c]
    /\ \E i, j \in Ingested :
          /\ << "mal", "10" >> \in RecordNodes(input[i]) \cap RecordNodes(input[j])
          /\ << "anilist", "1" >> \in RecordNodes(input[i])
          /\ << "kitsu", "100" >> \in RecordNodes(input[j])
    /\ \A i \in Ingested :
          ~ ({<< "anilist", "1" >>, << "kitsu", "100" >>} \subseteq RecordNodes(input[i]))

\* A co-occurrence edge: some ingested record holds both nodes.
Edge(u, v) == \E i \in Ingested : {u, v} \subseteq RecordNodes(input[i])

RECURSIVE Component(_)
\* The nodes a path of co-occurrence edges reaches from the nodes of S.
Component(S) ==
    LET T == S \cup {v \in NodesPut : \E u \in S : Edge(u, v)}
    IN IF T = S THEN S ELSE Component(T)

\* C3 (maximal connected sets): the nodes of a cluster are pairwise connected
\* by a path of co-occurrence edges, and no edge leaves a cluster.
C3_MaximalConnected ==
    Traversed =>
        \A c \in DOMAIN clusters :
            /\ \A u \in clusters[c] : clusters[c] \subseteq Component({u})
            /\ \A u \in clusters[c] : \A v \in NodesPut \ clusters[c] : ~ Edge(u, v)

\* A cluster of four or more nodes that no single record holds, next to
\* nothing else, or a second cluster beside it.
C3_Witness ==
    /\ pc = "done"
    /\ \E c \in DOMAIN clusters :
          /\ Cardinality(clusters[c]) >= 4
          /\ \A i \in Ingested : ~ (clusters[c] \subseteq RecordNodes(input[i]))

\* C4 (order independence): a second run on the same items, the items of a
\* file possibly in another order and the sets iterated in another order,
\* partitions the nodes into the same clusters as the first.
C4_OrderIndependent ==
    (run > 1 /\ Traversed) => Range(clusters) = prev.clusters

\* A second run has clustered the items, read in another order, into a
\* cluster of three or more nodes.
C4_Witness ==
    /\ run > 1
    /\ pc = "done"
    /\ input # prev.input
    /\ \E c \in DOMAIN clusters : Cardinality(clusters[c]) >= 3
    /\ Range(clusters) = prev.clusters

\* The priority order of the services a primary key is taken from.
Priority(m) ==
    IF m = "anime"
    THEN << "anidb", "anilist", "mal", "kitsu", "simkl" >>
    ELSE << "anilist", "mal", "kitsu" >>

\* The services of a cluster, under their normalized names.
ServicesIn(m, c) == {normalize_service_name(m, n[1]) : n \in c}

\* The ids the cluster holds for a normalized service name.
IdsIn(m, c, svc) == {n[2] : n \in {n \in c : normalize_service_name(m, n[1]) = svc}}

PriorityIn(m, c) == {k \in DOMAIN Priority(m) : Priority(m)[k] \in ServicesIn(m, c)}

\* C5 (canonical key): the primary key of a cluster with a priority service
\* is "service:id" of the first service of the priority order present in the
\* cluster, with the id the cluster's ids mapping records for that service.
C5_CanonicalKey ==
    Traversed =>
        \A c \in DOMAIN clusters :
            PriorityIn(media, clusters[c]) # {} =>
                LET first == CHOOSE k \in PriorityIn(media, clusters[c]) :
                                 \A j \in PriorityIn(media, clusters[c]) : k <= j
                    best == Priority(media)[first]
                IN /\ best \in DOMAIN cluster_out[c].ids
                   /\ cluster_out[c].ids[best] \in IdsIn(media, clusters[c], best)
                   /\ cluster_out[c].key = best \o ":" \o cluster_out[c].ids[best]

\* An anime run keyed one cluster by anidb although it holds an anilist id,
\* and another by kitsu although it holds a simkl id.
C5_Witness ==
    /\ pc = "done"
    /\ media = "anime"
    /\ \E c \in DOMAIN clusters :
          /\ cluster_out[c].key = "anidb:5"
          /\ "anilist" \in ServicesIn(media, clusters[c])
    /\ \E c \in DOMAIN clusters :
          /\ cluster_out[c].key = "kitsu:100"
          /\ "simkl" \in ServicesIn(media, clusters[c])

\* The item of the final list holds the id of the node in the field of the
\* node's service.
HasId(m, item, n) ==
    LET svc == normalize_service_name(m, n[1])
    IN /\ svc \in DOMAIN FIELD_MAP(m)
       /\ FIELD_MAP(m)[svc] \in DOMAIN item
       /\ n[2] \in DOMAIN IntOf
       /\ item[FIELD_MAP(m)[svc]] = IntOf[n[2]]

\* C6 (no priority service): a cluster without a priority service gets no
\* primary key, and every record of cross_ref is the key and ids of a
\* cluster that has one: the dropped cluster adds and changes no record.
C6_NoPriorityDropped ==
    Traversed =>
        /\ \A c \in DOMAIN clusters :
              PriorityIn(media, clusters[c]) = {} => cluster_out[c].key = ""
        /\ \A k \in DOMAIN cross_ref :
              \E c \in DOMAIN clusters :
                  /\ PriorityIn(media, clusters[c]) # {}
                  /\ cluster_out[c] = cross_ref[k]
        /\ Len(cluster_out) = Len(clusters)
        /\ Len(final_list) <= Len(cross_ref)
        /\ \A c \in DOMAIN clusters :
              PriorityIn(media, clusters[c]) = {} =>
                  \A n \in clusters[c] : \A i \in DOMAIN final_list :
                      ~ HasId(media, final_list[i], n)

\* A run finished with a dropped cluster beside a cluster that has a record
\* and an item of the final list.
C6_Witness ==
    /\ pc = "done"
    /\ \E c \in DOMAIN clusters :
          /\ PriorityIn(media, clusters[c]) = {}
          /\ cluster_out[c].key = ""
    /\ Len(cross_ref) = 1
    /\ Len(final_list) = 1
    /\ Len(clusters) = 2

\* C7 (no silent id loss), as claimed: the record stored under the primary
\* key of a cluster holds every (service, id) pair of the cluster, but for
\* a service the cluster has several ids of.
C7_NoIdLoss ==
    Traversed =>
        \A c \in DOMAIN clusters :
            cluster_out[c].key # "" =>
                \E k \in DOMAIN cross_ref :
                    /\ cross_ref[k].key = cluster_out[c].key
                    /\ \A n \in clusters[c] :
                          LET svc == normalize_service_name(media, n[1])
                          IN /\ svc \in DOMAIN cross_ref[k].ids
                             /\ \/ cross_ref[k].ids[svc] = n[2]
                                \/ Cardinality(IdsIn(media, clusters[c], svc)) > 1

\* C8 (same-service conflict): the ids computed for a cluster hold, for each
\* service of the cluster, one id, which is one of the cluster's ids for the
\* service; while the members are iterated an id once recorded is kept and
\* the member iterated sets the id only of a service not recorded yet.
C8_FirstEncounteredWins ==
    /\ [](Traversed =>
            \A c \in DOMAIN clusters :
                /\ DOMAIN cluster_out[c].ids = ServicesIn(media, clusters[c])
                /\ \A svc \in ServicesIn(media, clusters[c]) :
                      cluster_out[c].ids[svc] \in IdsIn(media, clusters[c], svc))
    /\ [][(pc = "xref" /\ pc' = "xref" /\ ci' = ci) =>
            \E n \in todo :
                LET svc == normalize_service_name(media, n[1])
                IN /\ todo' = todo \ {n}
                   /\ \A k \in DOMAIN ids : k \in DOMAIN ids' /\ ids'[k] = ids[k]
                   /\ DOMAIN ids' = DOMAIN ids \cup {svc}
                   /\ svc \notin DOMAIN ids => ids'[svc] = n[2]]_vars

\* A cluster with the two ids mal:10 and mal:11 got the one met first.
C8_Witness ==
    /\ pc = "done"
    /\ \E c \in DOMAIN clusters :
          /\ {<< "mal", "10" >>, << "mal", "11" >>} \subseteq clusters[c]
          /\ cluster_out[c].ids["mal"] = "11"
          /\ cluster_out[c].key # ""

\* The mal ids of the records of a cross-reference map.
MalValues(xref) ==
    {xref[k].ids["mal"] : k \in {k \in DOMAIN xref : "mal" \in DOMAIN xref[k].ids}}

\* Scenario D: two records, one naming mal:10 and one mal:11, in one cluster.
ScenarioD ==
    /\ Len(input) = 2
    /\ Ingested = {1, 2}
    /\ \A i \in Ingested :
          ~ ({<< "mal", "10" >>, << "mal", "11" >>} \subseteq RecordNodes(input[i]))
    /\ Len(clusters) = 1
    /\ {<< "mal", "10" >>, << "mal", "11" >>} \subseteq clusters[1]

\* C9 (Scenario D determinism), as claimed: two runs on the same input of
\* Scenario D put the same single mal value into the output.
C9_SameMalEveryRun ==
    (run > 1 /\ Traversed /\ input = prev.input /\ ScenarioD) =>
        /\ Cardinality(MalValues(cross_ref)) = 1
        /\ MalValues(cross_ref) = MalValues(prev.cross_ref)

\* The two records of Scenario A, the second in the MyAnimeList file.
ScenarioA ==
    /\ Len(input) = 2
    /\ input[1].service = "anilist"
    /\ input[1].id = "1"
    /\ input[1].external_ids = ("mal" :> "10")
    /\ input[2].service = "myanimelist"
    /\ input[2].id = "10"
    /\ input[2].external_ids = ("kitsu" :> "100")

\* The nodes of a cluster under normalized service names.
Normalized(m, c) == {<< normalize_service_name(m, n[1]), n[2] >> : n \in c}

\* C10 (Scenario A), as claimed: the two records give the one cluster
\* {anilist:1, mal:10, kitsu:100}, keyed anilist:1, with the ids of the three
\* services and an empty string for anidb, simkl, tmdb and imdb.
C10_ScenarioA ==
    (media = "anime" /\ ScenarioA /\ Traversed) =>
        /\ {Normalized(media, clusters[c]) : c \in DOMAIN clusters}
              = {{<< "anilist", "1" >>, << "mal", "10" >>, << "kitsu", "100" >>}}
        /\ Len(cross_ref) = 1
        /\ cross_ref[1].key = "anilist:1"
        /\ cross_ref[1].ids =
              [anilist |-> "1", mal |-> "10", kitsu |-> "100", anidb |-> "",
               simkl |-> "", tmdb |-> "", imdb |-> ""]

\* Scenario B: the input is one record with an id and no external ids.
ScenarioB ==
    /\ Len(input) = 1
    /\ input[1].shape = "ok"
    /\ input[1].id # ""
    /\ DOMAIN input[1].external_ids = {}

\* The output of Scenario B the claim describes: the singleton cluster of the
\* record's own node, one record of cross_ref keyed by the own id that holds
\* no id of another service, and (for an id that is an integer) one item
\* with that id alone.
ScenarioBOutput ==
    LET svc == normalize_service_name(media, input[1].service)
    IN /\ clusters = << {<< input[1].service, input[1].id >>} >>
       /\ Len(cross_ref) = 1
       /\ cross_ref[1].key = svc \o ":" \o input[1].id
       /\ cross_ref[1].ids = (svc :> input[1].id)
       /\ Len(final_list) = IF input[1].id \in DOMAIN IntOf THEN 1 ELSE 0
       /\ \A i \in DOMAIN final_list :
             /\ DOMAIN final_list[i] \cap Range(FIELD_MAP(media))
                    = {FIELD_MAP(media)[svc]}
             /\ final_list[i][FIELD_MAP(media)[svc]] = IntOf[input[1].id]

\* C11 (Scenario B), as claimed: one record without external ids, of any
\* service, gives a singleton cluster keyed by the record's own id.
C11_ScenarioBAnyService ==
    (Traversed /\ ScenarioB) => ScenarioBOutput

\* C11 (Scenario B), amended: one record without external ids, of a priority
\* service, gives a singleton cluster keyed by the record's own id, and no
\* id of another service; the record of another service gives a singleton
\* cluster without a key, a record or an item.
C11_ScenarioBPriority ==
    (Traversed /\ ScenarioB) =>
        IF normalize_service_name(media, input[1].service) \in Range(Priority(media))
        THEN ScenarioBOutput
        ELSE /\ clusters = << {<< input[1].service, input[1].id >>} >>
             /\ cluster_out[1].key = ""
             /\ cross_ref = <<>>
             /\ final_list = <<>>

\* A run on one MyAnimeList record without external ids has finished.
C11_Witness ==
    /\ pc = "done"
    /\ ScenarioB
    /\ input[1].service = "myanimelist"
    /\ Len(cross_ref) = 1
    /\ cross_ref[1].key = "mal:10"

\* The services of a record of cross_ref whose id is an integer and has an
\* output field, and those whose id is no integer.
Coercible(m, id_map) ==
    {s \in DOMAIN id_map \cap DOMAIN FIELD_MAP(m) : id_map[s] \in DOMAIN IntOf}

NonCoercible(m, id_map) ==
    {s \in DOMAIN id_map \cap DOMAIN FIELD_MAP(m) : id_map[s] \notin DOMAIN IntOf}

\* The id fields of the item are those of the integer ids of the record,
\* with their integer values.
ItemOf(m, item, id_map) ==
    /\ DOMAIN item \cap Range(FIELD_MAP(m))
           = {FIELD_MAP(m)[s] : s \in Coercible(m, id_map)}
    /\ \A s \in Coercible(m, id_map) :
          item[FIELD_MAP(m)[s]] = IntOf[id_map[s]]

\* The merge of the record raises no exception (C13 is about the one it can
\* raise).
MergedQuietly(id_map) == ~ SeasonRaises(media, id_map, all_data)

\* C12 (integer coercion): a record of cross_ref with an id that is no
\* integer and another id that is one has its item in the final list; the
\* item lacks the field of the former and holds the integer of every other.
C12_CoercionDropsField ==
    Traversed =>
        \A k \in DOMAIN cross_ref :
            LET id_map == cross_ref[k].ids
            IN (/\ NonCoercible(media, id_map) # {}
                /\ Coercible(media, id_map) # {}
                /\ MergedQuietly(id_map)) =>
                   \E i \in DOMAIN final_list :
                       /\ ItemOf(media, final_list[i], id_map)
                       /\ \A s \in NonCoercible(media, id_map) :
                             FIELD_MAP(media)[s] \notin DOMAIN final_list[i]

\* Scenario C: a cluster with mal "abc" and an AniList id has the item with
\* the anilist_id and no mal_id.
C12_Witness ==
    /\ pc = "done"
    /\ Len(cross_ref) = 1
    /\ DOMAIN cross_ref[1].ids = {"anilist", "mal"}
    /\ cross_ref[1].ids["mal"] = "abc"
    /\ Len(final_list) = 1
    /\ "mal_id" \notin DOMAIN final_list[1]
    /\ "anilist_id" \in DOMAIN final_list[1]

\* C13 (item survival), as claimed: a record of cross_ref has its item in
\* the final list if and only if one of its ids is an integer with an output
\* field, whatever the metadata of its sources.
C13_ItemSurvives ==
    Traversed =>
        /\ \A k \in DOMAIN cross_ref :
              Coercible(media, cross_ref[k].ids) # {} <=>
                  \E i \in DOMAIN final_list :
                      ItemOf(media, final_list[i], cross_ref[k].ids)
        /\ Len(final_list) =
              Cardinality({k \in DOMAIN cross_ref :
                             Coercible(media, cross_ref[k].ids) # {}})

\* The primary numeric id field of the merged list.
PrimaryField == IF media = "anime" THEN "anidb_id" ELSE "anilist_id"

\* The list is in the sort order of the claim: ascending in the primary
\* field, the items lacking it after the items having it.
InSortOrder(list) ==
    \A i, j \in DOMAIN list :
        i < j =>
            /\ PrimaryField \in DOMAIN list[j] => PrimaryField \in DOMAIN list[i]
            /\ (PrimaryField \in DOMAIN list[i] /\ PrimaryField \in DOMAIN list[j])
                  => list[i][PrimaryField] <= list[j][PrimaryField]

\* Two items have equal keys: the same primary id, or both lack the field.
SameKey(a, b) ==
    IF PrimaryField \in DOMAIN a /\ PrimaryField \in DOMAIN b
    THEN a[PrimaryField] = b[PrimaryField]
    ELSE PrimaryField \notin DOMAIN a /\ PrimaryField \notin DOMAIN b

\* C14 (sort order): the step that sorts final_list leaves the same items, in
\* ascending order of the primary id field with the items lacking it last,
\* the items of equal keys in their order of insertion.
C14_SortOrder ==
    [][(pc = "merge" /\ pc' = "done") =>
          /\ InSortOrder(final_list')
          /\ \E p \in SetOrders(DOMAIN final_list) :
                /\ \A i \in DOMAIN p : final_list'[i] = final_list[p[i]]
                /\ \A i, j \in DOMAIN p :
                      (i < j /\ SameKey(final_list'[i], final_list'[j]))
                          => p[i] < p[j]]_vars

\* The sort has moved an item with an anidb_id before the item of the first
\* record of cross_ref, which has none.
C14_Witness ==
    /\ pc = "done"
    /\ media = "anime"
    /\ Len(cross_ref) = 2
    /\ Len(final_list) = 2
    /\ "anidb" \notin DOMAIN cross_ref[1].ids
    /\ "anidb_id" \in DOMAIN final_list[1]
    /\ "anidb_id" \notin DOMAIN final_list[2]

\* The order of the sources of the type.
TypePriority == << "anilist", "mal", "kitsu" >>

\* The non-null types of the stored records of a service (under its
\* normalized name) whose own node is in the cluster.
TypesIn(c, svc) ==
    {all_data[n].type :
        n \in {n \in DOMAIN all_data \cap c :
                 /\ normalize_service_name(media, n[1]) = svc
                 /\ all_data[n].type # ""}}

\* The type the claim gives the item of a cluster: that of the first
\* service of the order with a typed record in the cluster, {} if none has.
ClaimedTypes(c) ==
    LET typed == {k \in DOMAIN TypePriority : TypesIn(c, TypePriority[k]) # {}}
    IN IF typed = {} THEN {}
       ELSE TypesIn(c, TypePriority[CHOOSE k \in typed : \A j \in typed : k <= j])

\* The item of the final list has the type the claim gives the cluster.
TypeAsClaimed(item, c) ==
    IF ClaimedTypes(c) = {} THEN "type" \notin DOMAIN item
    ELSE "type" \in DOMAIN item /\ item["type"] \in ClaimedTypes(c)

\* C15 (type selection), as claimed: the item of a cluster (one with a
\* single id per service, so that its sources are not in doubt) has the type
\* of the first of anilist, mal, kitsu that has a typed record in the
\* cluster, and no type when none has.
C15_TypeByPriority ==
    Traversed =>
        \A c \in DOMAIN clusters : \A k \in DOMAIN cross_ref :
            (/\ cross_ref[k] = cluster_out[c]
             /\ \A svc \in ServicesIn(media, clusters[c]) :
                    Cardinality(IdsIn(media, clusters[c], svc)) = 1
             /\ \A d \in DOMAIN clusters : cluster_out[d].key = cluster_out[c].key => d = c)
            => \A i \in DOMAIN final_list :
                   ItemOf(media, final_list[i], cross_ref[k].ids)
                       => TypeAsClaimed(final_list[i], clusters[c])

\* The values of a season field of the metadata that stand for no season.
Sentinels == {"a", "0", "movie", "ova", ""}

\* The season number the claim derives from a field of the AniDB metadata:
\* {} when the field is missing, a sentinel or no integer.
SeasonOf(metadata, field) ==
    IF /\ field \in DOMAIN metadata
       /\ metadata[field] \notin Sentinels
       /\ metadata[field] \in DOMAIN IntOf
    THEN {IntOf[metadata[field]]}
    ELSE {}

\* The stored AniDB records of the item: those whose id is its anidb_id.
AnidbRecords(item) ==
    {n \in DOMAIN all_data :
        /\ n[1] = "anidb"
        /\ "anidb_id" \in DOMAIN item
        /\ n[2] \in DOMAIN IntOf
        /\ IntOf[n[2]] = item["anidb_id"]}

\* The season sub-object of the item is the one the claim derives from the
\* metadata.
SeasonAsClaimed(item, metadata) ==
    LET tvdb == SeasonOf(metadata, "default_tvdb_season")
        tmdb == SeasonOf(metadata, "tmdb_season")
    IN IF tvdb = {} /\ tmdb = {} THEN "season" \notin DOMAIN item
       ELSE /\ "season" \in DOMAIN item
            /\ ("tvdb" \in DOMAIN item["season"]) <=> (tvdb # {})
            /\ ("tmdb" \in DOMAIN item["season"]) <=> (tmdb # {})
            /\ tvdb # {} => item["season"]["tvdb"] \in tvdb
            /\ tmdb # {} => item["season"]["tmdb"] \in tmdb

\* C16 (season sub-object): an item has a season only in anime and only
\* with an AniDB record; its tvdb / tmdb number is there exactly when the
\* field of the AniDB metadata is there, no sentinel and an integer, and is
\* that integer; with neither number the item has no season.
C16_Season ==
    Traversed =>
        \A i \in DOMAIN final_list :
            LET item == final_list[i]
            IN IF media = "anime" /\ AnidbRecords(item) # {}
               THEN \A n \in AnidbRecords(item) :
                        SeasonAsClaimed(item, all_data[n].metadata)
               ELSE "season" \notin DOMAIN item

\* Two AniDB items in the final list, one with the tvdb season alone (its
\* tmdb_season is a sentinel), one with the tmdb season alone.
C16_Witness ==
    /\ pc = "done"
    /\ Len(final_list) = 2
    /\ \E i, j \in DOMAIN final_list :
          /\ "season" \in DOMAIN final_list[i]
          /\ "season" \in DOMAIN final_list[j]
          /\ DOMAIN final_list[i]["season"] = {"tvdb"}
          /\ DOMAIN final_list[j]["season"] = {"tmdb"}

\* The file of the service does not parse.
Unparsable(svc) ==
    \E j \in DOMAIN input :
        input[j].service = svc /\ input[j].shape = "unparsable_file"

\* The file of the service parses and all its entries are well-formed.
CleanFile(svc) ==
    \A j \in DOMAIN input : input[j].service = svc => ~ Raises(input[j])

\* The item is in the record store and its nodes are linked with one another
\* in the graph.
Held(item) ==
    /\ << item.service, item.id >> \in DOMAIN all_data
    /\ \A u \in RecordNodes(item) :
          /\ u \in DOMAIN id_graph.rel
          /\ RecordNodes(item) \subseteq id_graph.rel[u]

\* load_all_data has returned.
Loaded == pc # "load"

\* C17 (fault-tolerant ingestion): load_all_data returns whatever file is
\* missing or does not parse; a file that does not parse gives no record, and
\* every item of every other file (one all of whose entries are well-formed)
\* is held, whether the file is read before or after the one that failed.
C17_FileFaultsLocal ==
    Loaded =>
        /\ pos = Len(input)
        /\ \A i \in DOMAIN input :
              /\ (CleanFile(input[i].service) /\ input[i].id # "")
                    => Held(input[i])
              /\ Unparsable(input[i].service) =>
                    \A n \in DOMAIN all_data : n[1] # input[i].service

\* The file of the first service did not parse, the item of a later file is
\* held.
C17_Witness ==
    /\ Loaded
    /\ Len(input) = 2
    /\ input[1].shape = "unparsable_file"
    /\ input[2].service # input[1].service
    /\ input[2].id # ""
    /\ DOMAIN input[2].external_ids # {}
    /\ Held(input[2])

\* C18 (malformed entries), as claimed: every well-formed item of a file
\* that parses is held, also when an entry of the same file, before or after
\* it, is malformed.
C18_MalformedSkippedAlone ==
    Loaded =>
        \A i \in DOMAIN input :
            (/\ ~ Unparsable(input[i].service)
             /\ input[i].shape = "ok"
             /\ input[i].id # "")
            => Held(input[i])

\* The ingested entries no later ingested entry of the same service and
\* local id overwrites.
LastEntries ==
    {i \in Ingested :
        ~ \E j \in Ingested :
              /\ j > i
              /\ input[j].service = input[i].service
              /\ input[j].id = input[i].id}

\* C19 (duplicate local ids), as claimed: after ingestion the record store
\* holds the later entry of each (service, local id), and the edges of the
\* graph are those of the entries held: an overwritten entry gives none.
C19_LastWriteWins ==
    Loaded =>
        /\ \A i \in LastEntries :
              all_data[<< input[i].service, input[i].id >>] = input[i]
        /\ \A u \in DOMAIN id_graph.rel :
              id_graph.rel[u] \subseteq
                  UNION {RecordNodes(input[i]) :
                            i \in {i \in LastEntries : u \in RecordNodes(input[i])}}

C22_OneRecordPerCluster ==
    Traversed =>
        /\ Len(cross_ref) =
              Cardinality({c \in DOMAIN cluster_out : cluster_out[c].key # ""})
        /\ \A c, d \in DOMAIN cluster_out :
              (c # d /\ cluster_out[c].key # "") =>
                  cluster_out[c].key # cluster_out[d].key

\* The adjacency relation of g is symmetric.
Symmetric(g) ==
    \A u \in DOMAIN g.rel : \A v \in g.rel[u] :
        v \in DOMAIN g.rel => u \in g.rel[v]

\* Every node of a neighbour set of g is a key of g.
Closed(g) ==
    /\ Range(g.keys) = DOMAIN g.rel
    /\ \A u \in DOMAIN g.rel : g.rel[u] \subseteq DOMAIN g.rel

\* C25 (graph well-formedness): once load_all_data has returned, for any
\* input, malformed entries included, the adjacency relation is symmetric
\* and closed; every key the traversal has queued, or starts from, is a key
\* of the graph, and no step after the load changes the graph.
C25_GraphWellFormed ==
    /\ [](Loaded =>
            /\ Symmetric(id_graph)
            /\ Closed(id_graph)
            /\ Range(queue) \subseteq DOMAIN id_graph.rel
            /\ visited \subseteq DOMAIN id_graph.rel)
    /\ [][(Loaded /\ pc' # "load") => id_graph' = id_graph]_vars

\* The traversal has ended on a graph with two related nodes, built from an
\* input that also holds a malformed entry.
C25_Witness ==
    /\ Traversed
    /\ \E i \in DOMAIN input : input[i].shape # "ok"
    /\ \E u \in DOMAIN id_graph.rel : \E v \in id_graph.rel[u] :
          /\ u # v
          /\ u \in visited
          /\ v \in visited

\* v is an integer (the ids of the graph are strings).
IsInteger(v) == ToString(v) \in {ToString(n) : n \in Range(IntOf)}

\* C27 (integer-only ids): in every item of the merged list, every id field
\* other than anime-planet_id holds an integer; the field the list is sorted
\* by is an integer or absent in every item.
C27_IntegerIds ==
    \A i \in DOMAIN final_list :
        /\ \A f \in DOMAIN final_list[i] \cap Range(FIELD_MAP(media)) :
              f # "anime-planet_id" => IsInteger(final_list[i][f])
        /\ \/ SortField(media) \notin DOMAIN final_list[i]
           \/ IsInteger(final_list[i][SortField(media)])

\* The sorted list holds two items, one with the sort field and one without
\* it, and a cluster held an id that is no integer.
C27_Witness ==
    /\ pc = "done"
    /\ Len(final_list) = 2
    /\ \E k \in DOMAIN cross_ref : NonCoercible(media, cross_ref[k].ids) # {}
    /\ \E i, j \in DOMAIN final_list :
          /\ SortField(media) \in DOMAIN final_list[i]
          /\ SortField(media) \notin DOMAIN final_list[j]

\* C28 (partial results on failure), as claimed: a run that ends with an
\* exception out of scrape, raised after scrape has collected an item, has
\* saved the items collected so far to the output file.
C28_PartialResultsSaved ==
    [][(/\ spc \in {"fetch", "scrape"}
        /\ spc' = "raised"
        /\ results # <<>>)
          => output_file' = [exists |-> TRUE, items |-> results]]_vars

\* The outcomes of a request that are failures.
FailedRequest == {"raise", "not200", "badbody"}

\* C29 (bounded retry), as claimed: a turn of the page loop whose request
\* fails leaves the consecutive-error counter one higher, a turn that
\* processes a page leaves it 0, and the counter never passes 5, the loop
\* having stopped when it is 5.
C29_BoundedRetry ==
    /\ [][(RetryPage /\ outcome' \in FailedRequest)
             => consecutive_errors' = consecutive_errors + 1]_vars
    /\ [][(RetryPage /\ outcome' = "ok") => consecutive_errors' = 0]_vars
    /\ [](/\ consecutive_errors <= max_consecutive_errors
          /\ consecutive_errors = max_consecutive_errors => spc # "scrape")

\* The positions of the pages of a paginated scraper.
Positions(s) ==
    {DefaultCheckpoint(s) + PageStep(s) * k : k \in 0..(MaxPages + 1)}

\* The first page no run has processed.
FirstUnprocessed(s) ==
    CHOOSE q \in Positions(s) \ processed :
        \A r \in Positions(s) \ processed : q <= r

C21_MediaTypeIndependence ==
    /\ [](\A i \in DOMAIN merged_groups : \A k1, k2 \in merged_groups[i] :
             all_media.map[k1].media_type = all_media.map[k2].media_type)
    /\ [][\A k \in DOMAIN all_media.map :
             all_media'.map[k].media_type = all_media.map[k].media_type]_vars

\* C23 (side-effect-free until the final write), as claimed: a step of the
\* run that creates or changes a file is taken only when nothing is left to
\* merge.
C23_NoWriteBeforeTheEnd ==
    [][(base_files' # base_files \/ cross_ref_file' # cross_ref_file)
          => Pending(base_files') = {}]_vars

\* Every field of a that holds a value holds it in b; a field that differs
\* was empty and is filled.
Kept(a, b) ==
    \A s \in DOMAIN a :
        /\ s \in DOMAIN b
        /\ a[s] # "" => b[s] = a[s]
        /\ b[s] # a[s] => (a[s] = "" /\ b[s] # "")

\* C24 (first-non-empty-wins): a turn of the third pass of
\* MergeEnricher.build_cross_references, update_cross_reference on an entry
\* it finds, and every turn of the loop of get_complete_mappings over the
\* entries of cross_ref keep each field that holds a value and fill only
\* empty fields, with non-empty values.
C24_FirstNonEmptyWins ==
    /\ [][(epc = "combine" /\ gi' = gi)
             => Kept(combined_mappings, combined_mappings')]_vars
    /\ [][program = "UniversalScraper" =>
             \A i \in DOMAIN self_cross_ref :
                 /\ i \in DOMAIN self_cross_ref'
                 /\ self_cross_ref'[i].key = self_cross_ref[i].key
                 /\ Kept(self_cross_ref[i].ids, self_cross_ref'[i].ids)]_vars
    /\ [][scraped' = scraped + 1 =>
             /\ \A n \in 0..(Len(self_cross_ref) - 1) :
                   Kept(CompleteFrom(known_mappings',
                                     SubSeq(self_cross_ref, 1, n)),
                        CompleteFrom(known_mappings',
                                     SubSeq(self_cross_ref, 1, n + 1)))
             /\ all_mappings' = CompleteFrom(known_mappings', self_cross_ref)
             /\ Kept(known_mappings', all_mappings')]_vars

\* MergeEnricher has run on a group of two media with different ids of one
\* service; the record of the group holds one of them.
C24_Witness ==
    /\ program = "MergeEnricher"
    /\ epc = "done"
    /\ \E i \in DOMAIN merged_groups : \E k1, k2 \in merged_groups[i] :
          /\ all_media.map[k1].mappings["mal"] = "1"
          /\ all_media.map[k2].mappings["mal"] = "2"
          /\ \E x \in DOMAIN self_cross_ref :
                /\ self_cross_ref[x].ids["mal"] \in {"1", "2"}
                /\ self_cross_ref[x].ids["anilist"]
                       = all_media.map[k1].mappings["anilist"]

RECURSIVE ConnectedTo(_, _)
\* The media a chain of media sharing a non-empty mapping entry leads to
\* from those of S.
ConnectedTo(am, S) ==
    LET T == S \cup UNION {SharingMedia(am, k) : k \in S}
    IN IF T = S THEN S ELSE ConnectedTo(am, T)

GroupsOf(k) == {i \in DOMAIN merged_groups : k \in merged_groups[i]}

\* C26 (grouping is a partition): after the second pass every record of
\* all_media is in exactly one merged group, two records being in the same
\* group exactly when a chain of records sharing a non-empty mapping entry
\* connects them; while a group is built it holds no record of an earlier
\* group.
C26_GroupingIsPartition ==
    program = "MergeEnricher" =>
        /\ epc \in {"combine", "update", "done"} =>
              \A k \in DOMAIN all_media.map :
                  /\ Cardinality(GroupsOf(k)) = 1
                  /\ \A k2 \in DOMAIN all_media.map :
                        (GroupsOf(k2) = GroupsOf(k))
                            <=> (k2 \in ConnectedTo(all_media, {k}))
        /\ (epc = "group" /\ to_process # {}) =>
              \A i \in DOMAIN merged_groups :
                  merged_groups[i] \cap current_group = {}
        /\ \A i, j \in DOMAIN merged_groups :
              i # j => merged_groups[i] \cap merged_groups[j] = {}

\* The run has ended with one group of three records, two of which share no
\* mapping entry and are connected by the third.
C26_Witness ==
    /\ program = "MergeEnricher"
    /\ epc = "done"
    /\ \E i \in DOMAIN merged_groups :
          /\ Cardinality(merged_groups[i]) = 3
          /\ \E k1, k2 \in merged_groups[i] :
                /\ k1 # k2
                /\ k2 \notin SharingMedia(all_media, k1)

====
